---- MODULE Spec2Model ----
(***************************************************************************)
(* A model of the rhc runtime: the timer scheduler (rhc/timer.py), the     *)
(* socket reactor and connection handler (rhc/tcpsocket.py) and the HTTP   *)
(* message engine with its outbound-call handlers (rhc/httphandler.py,     *)
(* rhc/connect.py, rhc/async.py).                                          *)
(*                                                                         *)
(* Each subsystem has its own specification over the shared variables:     *)
(*   SpecTimer  - Timers / _timer                                          *)
(*   Spec       - Server / BasicHandler                                    *)
(*   SpecSend   - one connection, with its send() calls logged             *)
(*   SpecHttp   - HTTPHandler and the outbound-call handlers               *)
(*   SpecHttpLive - SpecHttp with TIMERS.service() called again and again  *)
(*   SpecService - the reactor driven through Server.service()             *)
(*   SpecApp    - the reactor with on_data acting on another connection    *)
(* SpecBackoff, SpecOrder and SpecTls cover the backoff timer, the order   *)
(* of equal deadlines and connections with an ssl context.                 *)
(***************************************************************************)
EXTENDS Integers, Sequences, FiniteSets, TLC

VARIABLES
    \* ---- rhc/timer.py
    now,          \* time.time(), in whole ticks
    tlist,        \* Timers.__list: sequence of timer ids (a heapq list)
    running,      \* _timer.running, per timer
    expiration,   \* _timer.expiration, per timer
    is_in_heap,   \* _timer.is_in_heap, per timer
    svc,          \* observation of the most recent Timers.service() call
    backoff,      \* a BackoffTimer: its settings, its duration, the durations it gave
    startLog,     \* the armed timers in the order of their start() calls
    \* ---- rhc/tcpsocket.py
    conn,         \* per connection: the BasicHandler's fields and its callback counts
    read_wait,    \* Server._read_wait: socket -> registered callback ("none": absent)
    write_wait,   \* Server._write_wait: socket -> registered callback ("none": absent)
    osock,        \* per connection: what the OS holds for its socket
    sentArgs,     \* per connection: the arguments of all send() calls, concatenated
    round,        \* position of Server._service() in its dispatch loops
    loop,         \* the most recent Server.service() call: its locals and its rounds
    \* ---- rhc/httphandler.py, rhc/connect.py, rhc/async.py
    http,         \* one HTTP connection: its input stream and its handler
    \* ---- shared
    lastOp,       \* the most recent operation of the program
    raised        \* exception the most recent operation raised to its caller

timerVars == <<now, tlist, running, expiration, is_in_heap, svc, backoff, startLog>>
netVars == <<conn, read_wait, write_wait, osock, sentArgs, round, loop, lastOp>>
vars == <<now, tlist, running, expiration, is_in_heap, svc, backoff, startLog,
          conn, read_wait, write_wait, osock, sentArgs, round, loop, http, lastOp, raised>>

(***************************************************************************)
(*                          rhc/timer.py                                   *)
(***************************************************************************)

\* Bounds of the timer model.
NumTimers == 3
MaxTime == 3
MaxDuration == 2

\* _timer.expire: expiration = time.time() - 5
ExpireBack == 5

TimerIds == 1..NumTimers

Range(seq) == {seq[i] : i \in 1..Len(seq)}

\* Timer.duration (fixed-duration timers), in ticks: a configuration input.
DurationOf(t) == MaxDuration - ((t - 1) % MaxDuration)

\* _timer.__lt__ : the only comparison heapq and list.sort use
TimerLt(exp, a, b) == exp[a] < exp[b]

\* _timer.is_expired
IsExpired(exp, t, clock) == exp[t] < clock

\* heapq._siftdown(heap, startpos, pos); positions are 0-based as in the source
RECURSIVE SiftDownLoop(_, _, _, _, _)
SiftDownLoop(heap, exp, newitem, startpos, pos) ==
    IF pos > startpos
    THEN LET parentpos == (pos - 1) \div 2
             parent == heap[parentpos + 1]
         IN  IF TimerLt(exp, newitem, parent)
             THEN SiftDownLoop([heap EXCEPT ![pos + 1] = parent], exp, newitem,
                               startpos, parentpos)
             ELSE [heap EXCEPT ![pos + 1] = newitem]
    ELSE [heap EXCEPT ![pos + 1] = newitem]

SiftDown(heap, exp, startpos, pos) ==
    SiftDownLoop(heap, exp, heap[pos + 1], startpos, pos)

\* heapq._siftup(heap, pos)
RECURSIVE SiftUpLoop(_, _, _, _, _)
SiftUpLoop(heap, exp, newitem, startpos, pos) ==
    LET endpos == Len(heap)
        childpos == 2 * pos + 1
        rightpos == childpos + 1
    IN  IF childpos < endpos
        THEN LET c == IF rightpos < endpos
                         /\ ~TimerLt(exp, heap[childpos + 1], heap[rightpos + 1])
                      THEN rightpos ELSE childpos
             IN  SiftUpLoop([heap EXCEPT ![pos + 1] = heap[c + 1]], exp, newitem,
                            startpos, c)
        ELSE SiftDown([heap EXCEPT ![pos + 1] = newitem], exp, startpos, pos)

SiftUp(heap, exp, pos) == SiftUpLoop(heap, exp, heap[pos + 1], pos, pos)

\* heapq.heappush(heap, item)
HeapPush(heap, exp, item) == SiftDown(Append(heap, item), exp, 0, Len(heap))

\* heapq.heappop(heap): the popped item and the remaining heap
HeapPop(heap, exp) ==
    LET lastelt == heap[Len(heap)]
        rest == SubSeq(heap, 1, Len(heap) - 1)
    IN  IF rest # <<>>
        THEN [item |-> rest[1], heap |-> SiftUp([rest EXCEPT ![1] = lastelt], exp, 0)]
        ELSE [item |-> lastelt, heap |-> <<>>]

\* list.sort(): a stable sort that compares with __lt__ only
RECURSIVE InsertSorted(_, _, _)
InsertSorted(sorted, exp, item) ==
    IF sorted = <<>> THEN <<item>>
    ELSE LET last == sorted[Len(sorted)]
         IN  IF TimerLt(exp, item, last)
             THEN Append(InsertSorted(SubSeq(sorted, 1, Len(sorted) - 1), exp, item), last)
             ELSE Append(sorted, item)

RECURSIVE ListSortFrom(_, _, _)
ListSortFrom(sorted, rest, exp) ==
    IF rest = <<>> THEN sorted
    ELSE ListSortFrom(InsertSorted(sorted, exp, rest[1]), SubSeq(rest, 2, Len(rest)), exp)

ListSort(list, exp) == ListSortFrom(<<>>, list, exp)

\* Timers._on_start with its test inverted (a timer not yet listed is never pushed)
OnStartInverted(list, exp, inheap, item) ==
    IF ~inheap[item]
    THEN [list |-> ListSort(list, exp), inheap |-> inheap]
    ELSE [list |-> HeapPush(list, exp, item), inheap |-> [inheap EXCEPT ![item] = TRUE]]

\* Timers._on_start without "item.is_in_heap = True"
OnStartNoFlag(list, exp, inheap, item) ==
    IF inheap[item]
    THEN [list |-> ListSort(list, exp), inheap |-> inheap]
    ELSE [list |-> HeapPush(list, exp, item), inheap |-> inheap]

\* Timers._on_start(item): the new list and flag
OnStart(list, exp, inheap, item) ==
    IF inheap[item]
    THEN [list |-> ListSort(list, exp), inheap |-> inheap]
    ELSE [list |-> HeapPush(list, exp, item), inheap |-> [inheap EXCEPT ![item] = TRUE]]

\* _timer.start() of an idle timer, on the scheduler state st: running,
\* expiration = time.time() + duration, Timers._on_start
StartIdle(st, t, clock, d) ==
    [st EXCEPT !.running[t] = TRUE,
               !.exp[t] = clock + d,
               !.list = OnStart(st.list, [st.exp EXCEPT ![t] = clock + d], st.inheap, t).list,
               !.inheap = OnStart(st.list, [st.exp EXCEPT ![t] = clock + d], st.inheap, t).inheap]

\* The action of a fired timer that calls start() on its own timer: start()
\* raises on a running timer (execute() logs what the action raises)
ActionStart(st, t, clock) ==
    IF st.running[t]
    THEN [st EXCEPT !.startRaised = @ \cup {t}]
    ELSE StartIdle(st, t, clock, DurationOf(t))

\* timer.action() as _timer.execute() calls it: what the action finds (is its
\* timer running, how often is it in the list) is recorded, then the action
\* runs; restarts is whether it calls start() on its own timer
Action(st, t, clock, restarts) ==
    IF restarts
    THEN ActionStart([st EXCEPT !.atAction = Append(@, [t |-> t, running |-> st.running[t],
                                                       listed |-> Cardinality({i \in 1..Len(st.list) : st.list[i] = t})]),
                                !.selfStart = @ \cup {t}], t, clock)
    ELSE [st EXCEPT !.atAction = Append(@, [t |-> t, running |-> st.running[t],
                                            listed |-> Cardinality({i \in 1..Len(st.list) : st.list[i] = t})])]

\* _timer.execute() without its "if self.running" test
ExecuteAlways(st, t, clock, restarts) ==
    Action([st EXCEPT !.running[t] = FALSE,
                      !.fired = Append(@, t),
                      !.deadlines = Append(@, st.exp[t])], t, clock, restarts)

\* _timer.execute() on timer t in scheduler state st: the action runs only for a
\* running timer, which is made idle first; the action is recorded in st.fired
Execute(st, t, clock, restarts) ==
    IF st.running[t]
    THEN Action([st EXCEPT !.running[t] = FALSE,
                           !.fired = Append(@, t),
                           !.deadlines = Append(@, st.exp[t])], t, clock, restarts)
    ELSE st

\* Timers.service() without "item.is_in_heap = False"
PoppedKeepFlag(st, p) == [st EXCEPT !.list = p.heap]

\* Timers.service(), after heappop: "item.is_in_heap = False"
Popped(st, p) == [st EXCEPT !.list = p.heap, !.inheap[p.item] = FALSE]

\* the loop of Timers.service(); S is the set of timers whose action calls
\* start() on its own timer
RECURSIVE ServiceLoop(_, _, _)
ServiceLoop(st, clock, S) ==
    IF Len(st.list) # 0 /\ IsExpired(st.exp, st.list[1], clock)
    THEN ServiceLoop(Execute(Popped(st, HeapPop(st.list, st.exp)),
                             HeapPop(st.list, st.exp).item, clock,
                             HeapPop(st.list, st.exp).item \in S), clock, S)
    ELSE st

NoService ==
    [ran |-> FALSE, fired |-> <<>>, deadlines |-> <<>>, due |-> {},
     atAction |-> <<>>, selfStart |-> {}, startRaised |-> {}]

\* the BackoffTimer of the specifications that have none
NoBackoff == [initial |-> 0, maximum |-> 0, multiplier |-> 0, duration |-> -1, used |-> <<>>]

\* Timers.__init__ and Timers.add for each timer: an empty list, idle timers
InitScheduler ==
    /\ now = 0
    /\ tlist = <<>>
    /\ running = [t \in TimerIds |-> FALSE]
    /\ expiration = [t \in TimerIds |-> 0]
    /\ is_in_heap = [t \in TimerIds |-> FALSE]
    /\ svc = NoService
    /\ startLog = <<>>

InitTimerVars == InitScheduler /\ backoff = NoBackoff

\* _timer.start() of an idle timer with the duration d that get_duration() gave
TimerStartWith(t, d) ==
    /\ running' = [running EXCEPT ![t] = TRUE]
    /\ expiration' = [expiration EXCEPT ![t] = now + d]
    /\ tlist' = OnStart(tlist, [expiration EXCEPT ![t] = now + d], is_in_heap, t).list
    /\ is_in_heap' = OnStart(tlist, [expiration EXCEPT ![t] = now + d], is_in_heap, t).inheap

\* _timer.start(); on a running timer it raises and changes nothing
TimerStartEffect(t) == TimerStartWith(t, DurationOf(t))

\* _timer.start() without its "if self.running" test
TimerStartUnguarded(t) ==
    /\ TimerStartEffect(t)
    /\ raised' = "none"
    /\ svc' = NoService
    /\ UNCHANGED now

TimerStart(t) ==
    /\ IF running[t]
       THEN /\ raised' = "Exception"
            /\ UNCHANGED <<running, expiration, tlist, is_in_heap>>
       ELSE /\ raised' = "none"
            /\ TimerStartEffect(t)
    /\ svc' = NoService
    /\ UNCHANGED now

\* _timer.re_start(): running = False, then start()
TimerReStart(t) ==
    /\ TimerStartEffect(t)
    /\ raised' = "none"
    /\ svc' = NoService
    /\ UNCHANGED now

\* _timer.cancel() (also bound as delete)
TimerCancel(t) ==
    /\ IF running[t]
       THEN /\ running' = [running EXCEPT ![t] = FALSE]
            /\ expiration' = [expiration EXCEPT ![t] = 0]
       ELSE UNCHANGED <<running, expiration>>
    /\ raised' = "none"
    /\ svc' = NoService
    /\ UNCHANGED <<now, tlist, is_in_heap>>

\* _timer.expire()
TimerExpire(t) ==
    /\ IF running[t]
       THEN expiration' = [expiration EXCEPT ![t] = now - ExpireBack]
       ELSE UNCHANGED expiration
    /\ raised' = "none"
    /\ svc' = NoService
    /\ UNCHANGED <<now, tlist, running, is_in_heap>>

\* the scheduler state Timers.service() starts from
ServiceStart ==
    [list |-> tlist, running |-> running, inheap |-> is_in_heap, exp |-> expiration,
     fired |-> <<>>, deadlines |-> <<>>, atAction |-> <<>>, selfStart |-> {},
     startRaised |-> {}]

\* what follows a Timers.service() call that ended in scheduler state st
ServiceCommit(st) ==
    /\ tlist' = st.list
    /\ running' = st.running
    /\ is_in_heap' = st.inheap
    /\ expiration' = st.exp
    /\ svc' = [ran |-> TRUE, fired |-> st.fired, deadlines |-> st.deadlines,
               due |-> {t \in TimerIds : running[t] /\ IsExpired(expiration, t, now)},
               atAction |-> st.atAction, selfStart |-> st.selfStart,
               startRaised |-> st.startRaised]

\* Timers.service(); the actions of the timers in S call start() on their own
\* timer, the other actions touch no timer
TimersServiceActs(S) ==
    /\ ServiceCommit(ServiceLoop(ServiceStart, now, S))
    /\ raised' = "none"
    /\ UNCHANGED now

TimersService ==
    \E S \in SUBSET {t \in TimerIds : running[t] /\ t \in Range(tlist)} :
        TimersServiceActs(S)

\* ---- BackoffTimer

\* Bounds of the backoff timer's settings and of the number of start() calls
\* without a re_start().
MaxInitial == 2
MaxMaximum == 3
MaxMultiplier == 2
MaxStarts == 4

\* the timer that Timers.add_backoff created
BackoffId == CHOOSE t \in TimerIds : \A u \in TimerIds : t <= u

\* BackoffTimer.get_duration() without the cap at the maximum
GetDurationNoCap(b, is_restarting) ==
    IF b.duration = -1 \/ is_restarting THEN b.initial
    ELSE b.duration * b.multiplier

\* BackoffTimer.get_duration(); duration -1 stands for None
GetDuration(b, is_restarting) ==
    IF b.duration = -1 \/ is_restarting THEN b.initial
    ELSE IF b.duration * b.multiplier > b.maximum THEN b.maximum
    ELSE b.duration * b.multiplier

\* Timers.add_backoff(action, initial, maximum, multiplier)
InitBackoff ==
    \E i \in 1..MaxInitial, m \in 1..MaxMaximum, k \in 1..MaxMultiplier :
        backoff = [initial |-> i, maximum |-> m, multiplier |-> k,
                   duration |-> -1, used |-> <<>>]

\* start() of the backoff timer, once get_duration() gave d; used holds the
\* durations given since the last re_start()
BackoffStarted(d) ==
    /\ TimerStartWith(BackoffId, d)
    /\ backoff' = [backoff EXCEPT !.duration = d, !.used = Append(@, d)]
    /\ raised' = "none"

\* _timer.start() on the backoff timer: on a running timer it raises before
\* get_duration() is called
BackoffStart ==
    /\ IF running[BackoffId]
       THEN /\ raised' = "Exception"
            /\ UNCHANGED <<running, expiration, tlist, is_in_heap, backoff>>
       ELSE /\ Len(backoff.used) < MaxStarts
            /\ BackoffStarted(GetDuration(backoff, FALSE))
    /\ svc' = NoService
    /\ UNCHANGED now

\* _timer.re_start() on the backoff timer: is_restarting is set while start()
\* runs
BackoffReStart ==
    /\ TimerStartWith(BackoffId, GetDuration(backoff, TRUE))
    /\ backoff' = [backoff EXCEPT !.duration = GetDuration(backoff, TRUE),
                                  !.used = <<GetDuration(backoff, TRUE)>>]
    /\ raised' = "none"
    /\ svc' = NoService
    /\ UNCHANGED now

\* the observer's log of start(): the timers in the order of their latest
\* successful start() call
LogStart(t) ==
    startLog' = IF running[t] THEN startLog
                ELSE LET Other(u) == u # t IN Append(SelectSeq(startLog, Other), t)

\* the clock advances
Tick ==
    /\ now < MaxTime
    /\ now' = now + 1
    /\ UNCHANGED <<tlist, running, expiration, is_in_heap, svc, raised>>

(***************************************************************************)
(*                          rhc/tcpsocket.py                               *)
(*                                                                         *)
(* Outbound connections only: a Listener appends itself to                 *)
(* Server.__readable, which Server._service never polls, so no inbound     *)
(* connection is ever accepted.  The handler class is the application's    *)
(* subclass of BasicHandler; it supplies on_init (BasicHandler.__init__    *)
(* calls it and defines none) and its callbacks are counted here.          *)
(*                                                                         *)
(* An operation that raises keeps the assignments it made before the       *)
(* raise; the exception reaches the caller and is recorded in "raised".    *)
(***************************************************************************)

\* Bounds of the connection model.
MaxInBytes == 1
MaxSentBytes == 2
MaxCallbacks == 2

\* BasicHandler.RECV_LEN = 1024 scaled to the model's byte counts
RECV_LEN == 1

\* two connections: the smallest reactor in which one socket's callback runs
\* while another socket is registered
Conns == {1, 2}
Bytes == {"a", "b"}

\* the payloads an application passes to send()
SendPayloads == {<<>>} \cup {<<x>> : x \in Bytes}

\* BasicHandler.__init__
NewHandler ==
    [exists |-> FALSE, closed |-> FALSE, closing |-> FALSE, sending |-> <<>>,
     close_reason |-> "None", error |-> "None", ssl_ctx |-> FALSE,
     nOpen |-> 0, nReady |-> 0, nData |-> 0, nFail |-> 0, nClose |-> 0,
     nHandshake |-> 0, nFailedHandshake |-> 0, afterClosed |-> 0]

\* the OS side of a socket: connect progress, bytes the peer sent that wait to
\* be read, the peer's end, and the bytes the program handed to socket.send
NewSocket == [state |-> "none", inbuf |-> 0, peer |-> "open", wire |-> <<>>]

\* A reactor-side state: the handlers and the two wait tables, with the
\* exception (if any) that ended the operation.
NetState(c, r, w, exc) == [conn |-> c, read_wait |-> r, write_wait |-> w, exc |-> exc]

\* Server._register without removing the socket from the other table
RegisterKeepOther(st, sock, is_read, callback) ==
    IF is_read
    THEN [st EXCEPT !.read_wait[sock] = callback]
    ELSE [st EXCEPT !.write_wait[sock] = callback]

\* Server._register(sock, is_read, callback)
Register(st, sock, is_read, callback) ==
    IF is_read
    THEN [st EXCEPT !.read_wait[sock] = callback, !.write_wait[sock] = "none"]
    ELSE [st EXCEPT !.write_wait[sock] = callback, !.read_wait[sock] = "none"]

\* BasicHandler.__close without its "if not self.closed" test
CloseUnguarded(st, c) ==
    [st EXCEPT !.conn[c].closing = FALSE, !.conn[c].closed = TRUE,
               !.exc = "AttributeError"]

\* BasicHandler.close() -> __close(): on an open handler it clears __closing,
\* sets closed and then reads self.__socket, an attribute (mangled to
\* _BasicHandler__socket) that nothing assigns: AttributeError, before
\* _on_close() and on_close() are reached.  It never calls Server._unregister.
\* On a closed handler it does nothing.
HandlerClose(st, c) ==
    IF ~st.conn[c].closed
    THEN [st EXCEPT !.conn[c].closing = FALSE, !.conn[c].closed = TRUE,
                    !.exc = "AttributeError"]
    ELSE st

\* BasicHandler._on_ready()
HandlerOnReady(st, c) ==
    LET reg == Register(st, c, TRUE, "_do_read")
    IN  [reg EXCEPT !.conn[c].nReady = @ + 1]

\* What the ssl library does for a connection with an ssl context: wrap is
\* the result of SSLContext.wrap_socket, hs that of SSLSocket.do_handshake,
\* cert what the application's on_handshake(peer_cert) returns.
Tls(wrap, hs, cert) == [wrap |-> wrap, hs |-> hs, cert |-> cert]

NoTls == Tls("ok", "ok", TRUE)

HandshakeResults ==
    {Tls("ok", hs, TRUE) : hs \in {"SSLWantReadError", "SSLWantWriteError", "error", "ok"}}
        \cup {Tls("ok", "ok", FALSE)}

ConnectTlsResults == HandshakeResults \cup {Tls("error", "ok", TRUE)}

\* BasicHandler._do_handshake().  When do_handshake() fails, the handler
\* calls on_failed_handshake(str(e)) (the application's handler class defines
\* it, BasicHandler does not) and then self.close('failed ssl handshake'):
\* close() takes no argument, so TypeError is raised and close() does not run.
HandlerDoHandshake(st, c, tls) ==
    CASE tls.hs = "SSLWantReadError" -> Register(st, c, TRUE, "_do_handshake")
      [] tls.hs = "SSLWantWriteError" -> Register(st, c, FALSE, "_do_handshake")
      [] tls.hs = "error" ->
            [st EXCEPT !.conn[c].nFailedHandshake = @ + 1, !.exc = "TypeError"]
      [] OTHER ->
            IF tls.cert
            THEN HandlerOnReady([st EXCEPT !.conn[c].nHandshake = @ + 1], c)
            ELSE HandlerClose([st EXCEPT !.conn[c].nHandshake = @ + 1,
                                         !.conn[c].close_reason =
                                             "failed ssl certificate check"], c)

\* BasicHandler._on_connect(): on_open(), then with an ssl context
\* wrap_socket() and _do_handshake(), without one _on_ready()
HandlerOnConnect(st, c, tls) ==
    IF ~st.conn[c].ssl_ctx
    THEN HandlerOnReady([st EXCEPT !.conn[c].nOpen = @ + 1], c)
    ELSE IF tls.wrap = "error"
         THEN HandlerClose([st EXCEPT !.conn[c].nOpen = @ + 1,
                                      !.conn[c].close_reason = "str(e)"], c)
         ELSE HandlerDoHandshake([st EXCEPT !.conn[c].nOpen = @ + 1], c, tls)

\* the failure branch of Server.add_connection: on_fail(), close_reason, close()
ConnectFailedSync(st, c) ==
    HandlerClose([st EXCEPT !.conn[c].nFail = @ + 1,
                            !.conn[c].close_reason = "failed to setup connection"], c)

\* BasicHandler._on_delayed_connect(); rc is the socket's SO_ERROR
HandlerOnDelayedConnect(st, c, rc, tls) ==
    IF rc = 0
    THEN HandlerOnConnect(st, c, tls)
    ELSE HandlerClose([st EXCEPT !.conn[c].error = "strerror",
                                 !.conn[c].nFail = @ + 1], c)

\* _do_read(), after on_data(data): "if self._is_pending".  With an ssl
\* context the property reads self._sock, which nothing assigns.
AfterOnData(st, c) ==
    IF st.conn[c].ssl_ctx THEN [st EXCEPT !.exc = "AttributeError"] ELSE st

\* BasicHandler._do_read(); got is what socket.recv did: k = "data" with n > 0
\* bytes, "eof" (an empty read: the peer closed), "ENOENT", "error" (any
\* other socket.error), or one of the ssl library's want-errors
HandlerDoRead(st, c, got) ==
    CASE got.k = "ENOENT" -> st
      [] got.k = "SSLWantReadError" -> Register(st, c, TRUE, "_do_read")
      [] got.k = "SSLWantWriteError" -> Register(st, c, FALSE, "_do_read")
      [] got.k = "error" ->
            HandlerClose([st EXCEPT !.conn[c].close_reason = "recv error on socket"], c)
      [] got.k = "eof" ->
            HandlerClose([st EXCEPT !.conn[c].close_reason = "remote close"], c)
      [] OTHER ->
            AfterOnData([st EXCEPT !.conn[c].nData = @ + 1,
                                   !.conn[c].afterClosed =
                                       IF st.conn[c].closed THEN @ + 1 ELSE @], c)

\* BasicHandler._do_write(data): with no data it calls self.close('logic error
\* in handler'); otherwise self._sock.send(data) reads an attribute nothing
\* assigns, the AttributeError is caught by "except Exception" and the handler
\* calls self.close('send error on socket: ...').  close() takes no argument,
\* so both calls raise TypeError before close() runs: nothing is written and
\* nothing is buffered.
HandlerDoWrite(st, c, data) == [st EXCEPT !.exc = "TypeError"]

\* BasicHandler.send(data)
HandlerSend(st, c, data) ==
    IF Len(st.conn[c].sending) # 0
    THEN [st EXCEPT !.conn[c].sending = @ \o data]
    ELSE HandlerDoWrite(st, c, data)

Current == NetState(conn, read_wait, write_wait, "none")

Idle == [phase |-> "idle", readable |-> <<>>, writeable |-> <<>>]

\* no Server.service() call has been made
NoLoop ==
    [phase |-> "none", arg_delay |-> 0, max_iterations |-> 0, delay |-> 0,
     iterations |-> 0, did_anything |-> FALSE, result |-> FALSE, rounds |-> <<>>]

\* what follows an operation that ended in state st
Commit(st, op, c) ==
    /\ conn' = st.conn
    /\ read_wait' = st.read_wait
    /\ write_wait' = st.write_wait
    /\ raised' = st.exc
    /\ lastOp' = op

InitNetVars ==
    /\ conn = [c \in Conns |-> NewHandler]
    /\ read_wait = [c \in Conns |-> "none"]
    /\ write_wait = [c \in Conns |-> "none"]
    /\ osock = [c \in Conns |-> NewSocket]
    /\ sentArgs = [c \in Conns |-> <<>>]
    /\ round = Idle
    /\ loop = NoLoop
    /\ lastOp = "none"

\* Server.add_connection(address, handler, context, ssl).  With ssl set,
\* ssl.create_default_context() is looked up on the caller's ssl argument (an
\* SSLParam or a flag, which shadows the ssl module) and raises AttributeError
\* before connect() is tried.
AddConnection(c, ssl, res) ==
    /\ ~conn[c].exists
    /\ LET made == [Current EXCEPT !.conn[c].exists = TRUE]
       IN  IF ssl
           THEN /\ Commit([made EXCEPT !.exc = "AttributeError"], "add_connection", c)
                /\ UNCHANGED osock
           ELSE CASE res = "EINPROGRESS" ->
                       /\ Commit(Register(made, c, FALSE, "_on_delayed_connect"),
                                 "add_connection", c)
                       /\ osock' = [osock EXCEPT ![c].state = "inprogress"]
                  [] res = "connected" ->
                       /\ Commit(HandlerOnConnect(made, c, NoTls), "add_connection", c)
                       /\ osock' = [osock EXCEPT ![c].state = "connected"]
                  [] OTHER ->
                       /\ Commit(ConnectFailedSync(made, c), "add_connection", c)
                       /\ osock' = [osock EXCEPT ![c].state = "failed"]
    /\ UNCHANGED round

\* Server.add_connection(address, handler, context, ssl) by an application
\* that passes as ssl an object with create_default_context() (the ssl
\* module itself) and whose handler class defines is_inbound, which
\* _on_connect reads: the only way to a connection with an ssl context.
AddConnectionTls(c, res, tls) ==
    /\ ~conn[c].exists
    /\ CASE res = "EINPROGRESS" ->
               /\ Commit(Register([Current EXCEPT !.conn[c].exists = TRUE,
                                                  !.conn[c].ssl_ctx = TRUE],
                                  c, FALSE, "_on_delayed_connect"), "add_connection", c)
               /\ osock' = [osock EXCEPT ![c].state = "inprogress"]
         [] res = "connected" ->
               /\ Commit(HandlerOnConnect([Current EXCEPT !.conn[c].exists = TRUE,
                                                          !.conn[c].ssl_ctx = TRUE],
                                          c, tls), "add_connection", c)
               /\ osock' = [osock EXCEPT ![c].state = "connected"]
         [] OTHER ->
               /\ Commit(ConnectFailedSync([Current EXCEPT !.conn[c].exists = TRUE,
                                                           !.conn[c].ssl_ctx = TRUE], c),
                         "add_connection", c)
               /\ osock' = [osock EXCEPT ![c].state = "failed"]
    /\ UNCHANGED round

\* the application calls send(data) on a handler it holds
Send(c, data) ==
    /\ conn[c].exists
    /\ Commit(HandlerSend(Current, c, data), "send", c)
    /\ UNCHANGED <<osock, round>>

\* the observer's log of the arguments of send() on connection c
LogSend(c, data) ==
    /\ Len(sentArgs[c]) + Len(data) <= MaxSentBytes
    /\ sentArgs' = [sentArgs EXCEPT ![c] = @ \o data]

\* the application calls close() on a handler it holds
Close(c) ==
    /\ conn[c].exists
    /\ Commit(HandlerClose(Current, c), "close", c)
    /\ UNCHANGED <<osock, round>>

\* ---- the environment: the OS and the peer

\* a connect in progress completes or fails
OsConnectDone(c, ok) ==
    /\ osock[c].state = "inprogress"
    /\ osock' = [osock EXCEPT ![c].state = IF ok THEN "connected" ELSE "failed"]
    /\ UNCHANGED <<conn, read_wait, write_wait, round, lastOp, raised>>

\* the peer sends a byte (at most MaxInBytes over the connection's life)
PeerSend(c) ==
    /\ osock[c].state = "connected"
    /\ osock[c].peer = "open"
    /\ conn[c].nData + osock[c].inbuf < MaxInBytes
    /\ osock' = [osock EXCEPT ![c].inbuf = @ + 1]
    /\ UNCHANGED <<conn, read_wait, write_wait, round, lastOp, raised>>

\* the peer closes its end, or resets the connection
PeerEnd(c, how) ==
    /\ osock[c].state = "connected"
    /\ osock[c].peer = "open"
    /\ osock' = [osock EXCEPT ![c].peer = how]
    /\ UNCHANGED <<conn, read_wait, write_wait, round, lastOp, raised>>

\* select(): a socket is readable when bytes wait (during an ssl handshake:
\* the peer's handshake records), or the peer has gone
OsReadable(c) ==
    osock[c].inbuf > 0 \/ osock[c].peer # "open" \/ read_wait[c] = "_do_handshake"

\* select(): a socket is writeable once its connect has ended either way
OsWriteable(c) == osock[c].state \in {"connected", "failed"}

\* every ordering of a set of sockets (dict key order is arbitrary)
Orderings(S) ==
    {q \in [1..Cardinality(S) -> S] : \A i, j \in 1..Cardinality(S) : i # j => q[i] # q[j]}

\* what socket.recv(RECV_LEN) can do on a readable socket
RecvResults(c) ==
    IF osock[c].peer = "reset" THEN {[k |-> "error", n |-> 0]}
    ELSE IF osock[c].inbuf > 0
         THEN {[k |-> "data", n |-> n] : n \in {m \in 1..RECV_LEN : m <= osock[c].inbuf}}
              \cup {[k |-> "ENOENT", n |-> 0]}
              \cup (IF conn[c].ssl_ctx
                    THEN {[k |-> "SSLWantReadError", n |-> 0],
                          [k |-> "SSLWantWriteError", n |-> 0]}
                    ELSE {})
         ELSE {[k |-> "eof", n |-> 0]}

\* the end of a dispatch step: the round ends when a callback raised or when
\* both lists are done (the pending list is always empty without ssl)
NextRound(r, exc) ==
    IF exc # "none" \/ (r.readable = <<>> /\ r.writeable = <<>>) THEN Idle ELSE r

\* Server._service(): the start, up to select() returning the ready sockets
ServiceBegin ==
    /\ round.phase = "idle"
    /\ \A c \in Conns : /\ conn[c].nFail < MaxCallbacks
                        /\ conn[c].nOpen < MaxCallbacks
                        /\ conn[c].nFailedHandshake < MaxCallbacks
                        /\ conn[c].nHandshake < MaxCallbacks
                        /\ conn[c].nReady < MaxCallbacks
    /\ \E rd \in Orderings({c \in Conns : read_wait[c] # "none" /\ OsReadable(c)}),
          wr \in Orderings({c \in Conns : write_wait[c] # "none" /\ OsWriteable(c)}) :
          round' = NextRound([phase |-> "dispatch", readable |-> rd, writeable |-> wr],
                             "none")
    /\ lastOp' = "service"
    /\ raised' = "none"
    /\ UNCHANGED <<conn, read_wait, write_wait, osock>>

\* what the ssl library can do for socket s in a call of the callback
TlsResults(s, all) == IF conn[s].ssl_ctx THEN all ELSE {NoTls}

\* the registered callback runs for socket s: _do_read with what recv() did,
\* _do_handshake, or _on_delayed_connect with the socket's SO_ERROR
Callback(name, s, got, tls) ==
    CASE name = "_do_read" -> HandlerDoRead(Current, s, got)
      [] name = "_do_handshake" -> HandlerDoHandshake(Current, s, tls)
      [] OTHER -> HandlerOnDelayedConnect(Current, s,
                      IF osock[s].state = "connected" THEN 0 ELSE 1, tls)

\* the inputs of a callback: recv() results for _do_read, the ssl library's
\* results for the others
CallbackInputs(name, s) ==
    IF name = "_do_read"
    THEN {[got |-> g, tls |-> NoTls] :
             g \in IF OsReadable(s) THEN RecvResults(s)
                   ELSE {[k |-> "SSLWantReadError", n |-> 0]}}
    ELSE {[got |-> [k |-> "none", n |-> 0], tls |-> t] :
             t \in TlsResults(s, IF name = "_do_handshake" THEN HandshakeResults
                                 ELSE ConnectTlsResults)}

\* one callback of a dispatch loop, for the socket s at the head of the list
Dispatch(table, s, rest, op) ==
    IF table[s] = "none"
    THEN /\ Commit([Current EXCEPT !.exc = "KeyError"], op, s)
         /\ round' = Idle
         /\ UNCHANGED osock
    ELSE \E in \in CallbackInputs(table[s], s) :
            /\ Commit(Callback(table[s], s, in.got, in.tls), op, s)
            /\ round' = NextRound(rest, Callback(table[s], s, in.got, in.tls).exc)
            /\ osock' = [osock EXCEPT ![s].inbuf = @ - in.got.n]

\* Server._service(): "for s in readable: self._read_wait[s]()" for one s
DispatchRead ==
    /\ round.phase = "dispatch"
    /\ round.readable # <<>>
    /\ Dispatch(read_wait, Head(round.readable),
                [round EXCEPT !.readable = Tail(@)], "dispatch_read")

\* Server._service(): "for s in writeable: self._write_wait[s]()" for one s
DispatchWrite ==
    /\ round.phase = "dispatch"
    /\ round.readable = <<>>
    /\ round.writeable # <<>>
    /\ Dispatch(write_wait, Head(round.writeable),
                [round EXCEPT !.writeable = Tail(@)], "dispatch_write")

\* an application's on_data(data) on one connection that calls send('a') or
\* close() on another connection d it holds
AppOnData(st, d, call) ==
    IF st.exc # "none" THEN st
    ELSE IF call = "send" THEN HandlerSend(st, d, <<"a">>)
    ELSE HandlerClose(st, d)

\* "self._read_wait[s]()" for the socket s of a connection whose on_data
\* acts on connection d: _do_read, recv() gives one byte, on_data
AppRead(s, d, call) ==
    AppOnData(HandlerDoRead(Current, s, [k |-> "data", n |-> 1]), d, call)

DispatchReadAppOf(s, d, call) ==
    /\ d # s
    /\ conn[d].exists
    /\ read_wait[s] = "_do_read"
    /\ [k |-> "data", n |-> 1] \in RecvResults(s)
    /\ Commit(AppRead(s, d, call), "on_data_calls_" \o call, s)
    /\ round' = NextRound([round EXCEPT !.readable = Tail(@)], AppRead(s, d, call).exc)
    /\ osock' = [osock EXCEPT ![s].inbuf = @ - 1]

\* Server._service(): "for s in readable: self._read_wait[s]()" for one s
\* whose handler's on_data acts on another connection
DispatchReadApp(d, call) ==
    /\ round.phase = "dispatch"
    /\ round.readable # <<>>
    /\ DispatchReadAppOf(Head(round.readable), d, call)

\* ---- Server.service(delay, max_iterations)

\* the delay and max_iterations arguments range over 0..MaxDelay and
\* 0..MaxIterations
MaxDelay == 1
MaxIterations == 2

\* the rounds of one Server.service() call the model follows
MaxRounds == 4

\* Server.service(): the locals on entry
ServiceEntered(delay, max_iterations) ==
    [phase |-> "polling", arg_delay |-> delay, max_iterations |-> max_iterations,
     delay |-> delay, iterations |-> 0, did_anything |-> FALSE, result |-> FALSE,
     rounds |-> <<>>]

\* the call self._service(delay) is made: the observer notes the delay it
\* is given and whether select() reported a ready socket
ServicePolled(l, processed) ==
    [l EXCEPT !.rounds = Append(@, [delay |-> l.delay, processed |-> processed])]

\* a loop body that keeps the caller's delay for the next round
ServiceBodyKeepDelay(l) ==
    LET l1 == [l EXCEPT !.did_anything = TRUE]
        l2 == IF l1.max_iterations # 0 THEN [l1 EXCEPT !.iterations = @ + 1] ELSE l1
    IN  IF l2.max_iterations # 0 /\ l2.iterations = l2.max_iterations
        THEN [l2 EXCEPT !.phase = "returned", !.result = l2.did_anything]
        ELSE l2

\* Server.service(): the loop body, run when _service() returned True, up
\* to the break or the next evaluation of the while condition
ServiceBody(l) ==
    LET l1 == [l EXCEPT !.did_anything = TRUE, !.delay = 0]
        l2 == IF l1.max_iterations # 0 THEN [l1 EXCEPT !.iterations = @ + 1] ELSE l1
    IN  IF l2.max_iterations # 0 /\ l2.iterations = l2.max_iterations
        THEN [l2 EXCEPT !.phase = "returned", !.result = l2.did_anything]
        ELSE l2

\* Server.service(): _service() returned False, "return did_anything"
ServiceReturn(l) == [l EXCEPT !.phase = "returned", !.result = l.did_anything]

\* Server.service() after a step of _service(): the round goes on, or it
\* was left by an exception of a callback, or it returned and the loop
\* body runs
ServiceAfterStep(l, rnd, exc) ==
    IF rnd # Idle THEN l
    ELSE IF exc # "none" THEN [l EXCEPT !.phase = "raised"]
    ELSE ServiceBody(l)

\* the application calls SERVER.service(delay, max_iterations)
ServiceCall(delay, max_iterations) ==
    /\ loop.phase # "polling"
    /\ round = Idle
    /\ loop' = ServiceEntered(delay, max_iterations)
    /\ lastOp' = "service()"
    /\ raised' = "none"
    /\ UNCHANGED <<conn, read_wait, write_wait, osock, round>>

\* Server.service(): the while condition calls self._service(delay)
ServicePoll ==
    /\ loop.phase = "polling"
    /\ Len(loop.rounds) < MaxRounds
    /\ ServiceBegin
    /\ loop' = IF round' = Idle
               THEN ServiceReturn(ServicePolled(loop, FALSE))
               ELSE ServicePolled(loop, TRUE)

\* a dispatch step of the round of a Server.service() call
ServiceDispatch ==
    /\ loop.phase = "polling"
    /\ (DispatchRead \/ DispatchWrite)
    /\ loop' = ServiceAfterStep(loop, round', raised')

(***************************************************************************)
(*                 rhc/httphandler.py: the HTTP engine                     *)
(*                                                                         *)
(* Byte strings are sequences of one-character strings.  The operators     *)
(* below are the Python str methods the engine calls, computed as Python   *)
(* computes them.                                                          *)
(***************************************************************************)

CR == "\r"
LF == "\n"
Whitespace == {" ", "\t", CR, LF}

Uppers == <<"A", "B", "C", "D", "E", "F", "G", "H", "I", "J", "K", "L", "M",
            "N", "O", "P", "Q", "R", "S", "T", "U", "V", "W", "X", "Y", "Z">>
Lowers == <<"a", "b", "c", "d", "e", "f", "g", "h", "i", "j", "k", "l", "m",
            "n", "o", "p", "q", "r", "s", "t", "u", "v", "w", "x", "y", "z">>
HexDigits == <<"0", "1", "2", "3", "4", "5", "6", "7", "8", "9",
               "a", "b", "c", "d", "e", "f">>

\* the first index of ch in s, 0 when absent
Least(I) == IF I = {} THEN 0 ELSE CHOOSE i \in I : \A j \in I : i <= j
Greatest(I) == IF I = {} THEN 0 ELSE CHOOSE i \in I : \A j \in I : i >= j

IndexOf(s, ch) == Least({i \in 1..Len(s) : s[i] = ch})

\* s[a:b] with 1-based inclusive bounds, empty when a > b
Slice(s, a, b) == IF a > b THEN <<>> ELSE SubSeq(s, a, b)

\* str.split(ch, 1): one part when ch is absent, else two
SplitAt(s, i) ==
    IF i = 0 THEN <<s>>
    ELSE <<Slice(s, 1, i - 1), Slice(s, i + 1, Len(s))>>

Split1(s, ch) == SplitAt(s, IndexOf(s, ch))

\* str.strip()
Black(s) == {i \in 1..Len(s) : s[i] \notin Whitespace}

Strip(s) == IF Black(s) = {} THEN <<>> ELSE Slice(s, Least(Black(s)), Greatest(Black(s)))

\* str.split(): the maximal runs of non-whitespace characters
RECURSIVE SplitWhitespace(_)
\* the token that starts at b, and the tokens after it; e is the index of the
\* first whitespace after b (0: none)
TokenFrom(s, b, e) ==
    IF e = 0 THEN <<Slice(s, b, Len(s))>>
    ELSE <<Slice(s, b, e - 1)>> \o SplitWhitespace(Slice(s, e, Len(s)))

TokensFrom(s, b) ==
    IF b = 0 THEN <<>>
    ELSE TokenFrom(s, b, Least({i \in b..Len(s) : s[i] \in Whitespace}))

SplitWhitespace(s) == TokensFrom(s, Least(Black(s)))

\* ' '.join(toks)
RECURSIVE JoinSpace(_)
JoinSpace(toks) ==
    IF toks = <<>> THEN <<>>
    ELSE IF Len(toks) = 1 THEN toks[1]
    ELSE toks[1] \o <<" ">> \o JoinSpace(Tail(toks))

LowerAt(ch, i) == IF i = 0 THEN ch ELSE Lowers[i]

LowerChar(ch) == LowerAt(ch, IndexOf(Uppers, ch))

\* str.lower()
Lower(s) == [i \in 1..Len(s) |-> LowerChar(s[i])]

\* the value of a string of digits of the given base, most significant first
RECURSIVE DigitsValue(_, _)
DigitsValue(s, base) ==
    IF s = <<>> THEN 0
    ELSE DigitsValue(Slice(s, 1, Len(s) - 1), base) * base
         + (IndexOf(HexDigits, LowerChar(s[Len(s)])) - 1)

IsDigits(s, base) ==
    /\ s # <<>>
    /\ \A i \in 1..Len(s) : IndexOf(HexDigits, LowerChar(s[i])) \in 1..base

\* int(s, base) for base 10 and 16: surrounding whitespace, one optional
\* sign, for base 16 an optional 0x prefix, then digits; ok = FALSE is
\* ValueError
ParseDigits(d, base) ==
    IF IsDigits(d, base) THEN [ok |-> TRUE, n |-> DigitsValue(d, base)]
    ELSE [ok |-> FALSE, n |-> 0]

DropPrefix(u, base) ==
    IF base = 16 /\ Len(u) >= 2 /\ u[1] = "0" /\ u[2] \in {"x", "X"}
    THEN Slice(u, 3, Len(u)) ELSE u

Negated(p) == [ok |-> p.ok, n |-> 0 - p.n]

ParseSigned(t, base) ==
    IF t # <<>> /\ t[1] = "-" THEN Negated(ParseDigits(DropPrefix(Tail(t), base), base))
    ELSE IF t # <<>> /\ t[1] = "+" THEN ParseDigits(DropPrefix(Tail(t), base), base)
    ELSE ParseDigits(DropPrefix(t, base), base)

ParseInt(s, base) == ParseSigned(Strip(s), base)

\* ---- the http_headers dict: a sequence of [k, v] entries with distinct keys

DictHas(d, k) == \E i \in 1..Len(d) : d[i].k = k

DictGet(d, k) == d[CHOOSE i \in 1..Len(d) : d[i].k = k].v

\* d[k] = v
DictSet(d, k, v) ==
    IF DictHas(d, k)
    THEN [i \in 1..Len(d) |-> IF d[i].k = k THEN [k |-> k, v |-> v] ELSE d[i]]
    ELSE Append(d, [k |-> k, v |-> v])

\* "for n, v in self.http_headers.items(): self.http_headers[n.lower()] = v"
\* over the first i items of the snapshot
RECURSIVE AddLowerKeys(_, _, _)
AddLowerKeys(d, items, i) ==
    IF i = 0 THEN d
    ELSE DictSet(AddLowerKeys(d, items, i - 1), Lower(items[i].k), items[i].v)

\* s[:n] and s[n:] as Python slices them, negative n included
PyPrefix(s, n) ==
    IF n >= 0 THEN Slice(s, 1, IF n < Len(s) THEN n ELSE Len(s))
    ELSE Slice(s, 1, Len(s) + n)

PySuffix(s, n) ==
    IF n >= 0 THEN Slice(s, n + 1, Len(s))
    ELSE Slice(s, IF Len(s) + n < 0 THEN 1 ELSE Len(s) + n + 1, Len(s))

HTTP10 == <<"H", "T", "T", "P", "/", "1", ".", "0">>
HTTP11 == <<"H", "T", "T", "P", "/", "1", ".", "1">>
TransferEncoding ==
    <<"T", "r", "a", "n", "s", "f", "e", "r", "-", "E", "n", "c", "o", "d", "i", "n", "g">>
ContentLength ==
    <<"C", "o", "n", "t", "e", "n", "t", "-", "L", "e", "n", "g", "t", "h">>
Chunked == <<"c", "h", "u", "n", "k", "e", "d">>

\* HTTPHandler.__init__ defaults
http_max_line_length == 10000
http_max_header_count == 100

\* The handler classes: an application subclass of HTTPHandler that keeps the
\* default callbacks, and the three handlers of outbound calls
\* (connect.connect, async.connect, async.request).
Outbound == {"connect.ConnectHandler", "async.ConnectHandler", "async._Handler"}
Kinds == {"HTTPHandler"} \cup Outbound

\* HTTPHandler.__setup()
HttpSetup(h) ==
    [h EXCEPT !.http_message = <<>>, !.http_headers = <<>>, !.http_content = <<>>,
              !.http_status_code = -1, !.http_status_message = <<>>,
              !.http_method = <<>>, !.http_resource = <<>>,
              !.http_query_string = <<>>, !.state = "__status", !.nLines = 0]

\* BasicHandler.__init__ and HTTPHandler.__init__, with the on_init of the
\* outbound handlers (it creates and starts the call's timer; Timers.add
\* accepts the (duration, action) order async.py uses).  -1 stands for
\* None in http_status_code, <<>> for None in http_method, 0 for None in
\* http_max_content_length.  nLines counts the header and trailer lines
\* stored for the message being parsed.
HttpNew(kind, cfg) ==
    HttpSetup(
    [kind |-> kind, data |-> <<>>, state |-> "__status", length |-> 0,
     http_message |-> <<>>, http_headers |-> <<>>, http_content |-> <<>>,
     http_status_code |-> -1, http_status_message |-> <<>>, http_method |-> <<>>,
     http_resource |-> <<>>, http_query_string |-> <<>>,
     http_max_line_length |-> cfg.max_line,
     http_max_header_count |-> cfg.max_headers,
     http_max_content_length |-> cfg.max_content,
     headers_rc |-> cfg.headers_rc, ctx_method |-> cfg.method,
     sent_method |-> "None", identity_close |-> FALSE,
     closed |-> FALSE, close_reason |-> "None", error |-> "None",
     rxByteCount |-> 0, is_done |-> FALSE,
     timer_running |-> kind \in Outbound,
     nCallback |-> 0, cb |-> <<>>, events |-> <<>>, nLines |-> 0,
     ret |-> FALSE, exc |-> "none"])

\* a callback of the engine reaches the application, which sees the handler's
\* message attributes as they are at that moment
Emit(h, ev, content) ==
    [h EXCEPT !.events = Append(@, [ev |-> ev, content |-> content,
                                    headers |-> h.http_headers,
                                    method |-> h.http_method,
                                    resource |-> h.http_resource,
                                    query |-> h.http_query_string,
                                    status |-> h.http_status_code])]

\* self.context.callback(rc, result) / RequestCallback.success / error
Called(h, rc, result) ==
    [h EXCEPT !.nCallback = @ + 1, !.cb = Append(@, [rc |-> rc, result |-> result])]

\* BasicHandler.close() -> __close() on this handler: see HandlerClose
HttpClose(h) ==
    IF ~h.closed
    THEN [h EXCEPT !.closed = TRUE, !.exc = "AttributeError"]
    ELSE h

\* a done() that cancels the timer and leaves the call unfinished
ConnectDoneLost(h, result, rc) == [h EXCEPT !.timer_running = FALSE]

\* connect.ConnectHandler.done(result, rc): the completion callback, then
\* self.close('transaction complete'), a call close() does not accept
ConnectDone(h, result, rc) ==
    IF h.is_done THEN h
    ELSE [Called(h, rc, result) EXCEPT !.is_done = TRUE, !.timer_running = FALSE,
                                      !.exc = "TypeError"]

\* async.ConnectHandler.done(result, rc)
AsyncDone(h, result, rc) ==
    IF h.is_done THEN h
    ELSE HttpClose([Called(h, rc, result) EXCEPT
                        !.is_done = TRUE, !.timer_running = FALSE,
                        !.close_reason = IF @ = "None"
                                         THEN "transaction complete" ELSE @])

\* async._Handler._error(reason); is_done is context.done
RequestError(h, reason) ==
    IF ~h.is_done
    THEN [Called(h, 1, reason) EXCEPT !.is_done = TRUE, !.timer_running = FALSE]
    ELSE [h EXCEPT !.timer_running = FALSE]

\* on_http_error() of each handler class
OnHttpErrorOf(e) ==
    CASE e.kind = "connect.ConnectHandler" -> ConnectDone(e, "http error", 1)
      [] e.kind = "async.ConnectHandler" -> AsyncDone(e, "http error", 1)
      [] e.kind = "async._Handler" -> RequestError(e, "http error")
      [] OTHER -> e

OnHttpError(h) == OnHttpErrorOf(Emit(h, "on_http_error", <<>>))

\* HTTPHandler._on_http_data() and on_http_data() of each handler class.  The
\* messages of the model carry no Content-Encoding and no Content-Type, so
\* the gzip, multipart and charset steps do nothing.  In both ConnectHandler
\* classes every path through on_http_data() ends in done(); the responses
\* of the model have status 200, so evaluate() gives the content and rc 0.
OnHttpDataOf(e) ==
    CASE e.kind = "connect.ConnectHandler" -> ConnectDone(e, "http_content", 0)
      [] e.kind = "async.ConnectHandler" -> AsyncDone(e, "http_content", 0)
      [] e.kind = "async._Handler" ->
            [Called(e, 0, "success") EXCEPT !.timer_running = FALSE,
                                            !.is_done = TRUE]
      [] OTHER -> e

OnHttpData(h) == OnHttpDataOf(Emit(h, "on_http_data", h.http_content))

\* HTTPHandler.send_server(code=413, ...): __send -> BasicHandler.send ->
\* _do_write, which raises TypeError (see HandlerDoWrite)
SendServer(h) == [h EXCEPT !.exc = "TypeError"]

\* HTTPHandler.__error(message), after on_http_error(): close() and
\* "return False" (ret = FALSE)
HttpErrorClose(e) ==
    IF e.exc # "none" THEN e ELSE [HttpClose(e) EXCEPT !.ret = FALSE]

\* HTTPHandler.__error(message)
HttpError(h, message) == HttpErrorClose(OnHttpError([h EXCEPT !.error = message]))

\* What HTTPHandler.__line() gives its caller: r is "line" (with the line),
\* "None", "False" (what __error returned) or "raise".
LineFailed(e) ==
    [h |-> e, line |-> <<>>, r |-> IF e.exc # "none" THEN "raise" ELSE "False"]

StripCR(raw) ==
    IF Len(raw) > 0 /\ raw[Len(raw)] = CR THEN Slice(raw, 1, Len(raw) - 1) ELSE raw

\* __line(), the second half: "if len(line): ... (b)"; h1 has the line removed
LineChecked(h1, raw, line) ==
    IF Len(raw) > 0 /\ Len(line) > h1.http_max_line_length
    THEN LineFailed(HttpError(h1, "too much data without a line termination (b)"))
    ELSE [h |-> h1, line |-> line, r |-> "line"]

\* __line(), after "test = self.__data.split('\n', 1)"
LineSplit(h, test) ==
    IF Len(test) = 1
    THEN IF Len(h.data) > h.http_max_line_length
         THEN LineFailed(HttpError(h, "too much data without a line termination (a)"))
         ELSE [h |-> h, line |-> <<>>, r |-> "None"]
    ELSE LineChecked([h EXCEPT !.data = test[2]], test[1], StripCR(test[1]))

\* HTTPHandler.__line()
HttpLine(h) == LineSplit(h, Split1(h.data, LF))

\* __status(), a response: "HTTP/1.[0|1] 200 OK"
StatusResponse(h, toks, code) ==
    IF ~code.ok
    THEN HttpError(h, "Invalid status line: non-integer status code")
    ELSE [h EXCEPT !.http_status_code = code.n,
                   !.http_status_message = JoinSpace(Slice(toks, 3, Len(toks))),
                   !.state = "__header", !.ret = TRUE]

\* __status(), a request: "GET /resource HTTP/1.[0|1]".  urlparse of the
\* target is its split at the first "?" (the targets of the model are
\* origin-form, without fragment)
StatusRequest(h, toks, res) ==
    IF toks[3] \notin {HTTP10, HTTP11}
    THEN HttpError(h, "Invalid status line: not HTTP/1.0 or HTTP/1.1")
    ELSE [h EXCEPT !.http_method = toks[1], !.http_resource = res[1],
                   !.http_query_string = IF Len(res) = 2 THEN res[2] ELSE <<>>,
                   !.state = "__header", !.ret = TRUE]

\* __status(), after "toks = line.split()"
StatusTokens(h, toks) ==
    IF Len(toks) < 3
    THEN HttpError(h, "Invalid status line: too few tokens")
    ELSE IF toks[1] \in {HTTP10, HTTP11}
    THEN StatusResponse(h, toks, ParseInt(toks[2], 10))
    ELSE StatusRequest(h, toks, Split1(toks[2], "?"))

\* __status(), after "line = self.__line()"
StatusLine(L) ==
    IF L.r = "raise" THEN L.h
    ELSE IF L.r # "line" THEN [L.h EXCEPT !.ret = FALSE]
    ELSE StatusTokens(L.h, SplitWhitespace(L.line))

\* HTTPHandler.__status()
HttpStatus(h) == StatusLine(HttpLine(h))

\* __content(), after on_http_data(): the slice of __data and __setup()
ContentDone(d, length) ==
    IF d.exc # "none" THEN d
    ELSE [HttpSetup([d EXCEPT !.data = PySuffix(@, length)]) EXCEPT !.ret = TRUE]

\* HTTPHandler.__content()
HttpContent(h) ==
    IF Len(h.data) >= h.length
    THEN ContentDone(OnHttpData([h EXCEPT !.http_content = PyPrefix(h.data, h.length)]),
                     h.length)
    ELSE [h EXCEPT !.ret = FALSE]

\* the end of HTTPHandler._end_header(): on_http_headers(), whose rc the
\* application chooses
HttpOnHeaders(h) ==
    IF h.headers_rc # 0
    THEN HttpError(Emit(h, "on_http_headers", <<>>), "on_http_headers")
    ELSE [Emit(h, "on_http_headers", <<>>) EXCEPT !.ret = TRUE]

\* _end_header(), the server without Content-Length: after self.__content()
EndHeaderNoLength(c) == IF c.exc # "none" THEN c ELSE HttpOnHeaders(c)

\* _end_header(), with Content-Length: n is int(...) of its value
EndHeaderLength(h, n) ==
    IF ~n.ok THEN HttpError(h, "Invalid content length")
    ELSE IF h.http_max_content_length # 0 /\ n.n > h.http_max_content_length
    THEN SendServer([h EXCEPT !.length = n.n])
    ELSE HttpOnHeaders([h EXCEPT !.length = n.n, !.state = "__content"])

\* _end_header(), after the lower-case copies are added
EndHeaderFraming(h) ==
    IF h.sent_method = "HEAD"
    THEN HttpOnHeaders([h EXCEPT !.length = 0, !.state = "__content"])
    ELSE IF DictHas(h.http_headers, TransferEncoding)
    THEN IF DictGet(h.http_headers, TransferEncoding) # Chunked
         THEN HttpError(h, "Unsupported Transfer-Encoding value")
         ELSE HttpOnHeaders([h EXCEPT !.state = "__chunked_length"])
    ELSE IF DictHas(h.http_headers, ContentLength)
    THEN EndHeaderLength(h, ParseInt(DictGet(h.http_headers, ContentLength), 10))
    ELSE IF h.http_method # <<>>
    THEN EndHeaderNoLength(HttpContent([h EXCEPT !.length = 0]))
    ELSE HttpOnHeaders([h EXCEPT !.identity_close = TRUE, !.state = "__identity"])

\* HTTPHandler._end_header().  The lower-case copies are added in the order
\* of the dict's items; the messages of the model have no two header names
\* that differ only in case, so the order does not matter.
HttpEndHeader(h) ==
    EndHeaderFraming([h EXCEPT !.http_headers = AddLowerKeys(@, @, Len(@))])

\* __header(), a non-empty line
HeaderField(h, test) ==
    IF Len(h.http_headers) = h.http_max_header_count
    THEN HttpError(h, "Too many header records defined")
    ELSE IF Len(test) # 2
    THEN HttpError(h, "Invalid header: missing colon")
    ELSE [h EXCEPT !.http_headers = DictSet(@, Strip(test[1]), Strip(test[2])),
                   !.nLines = @ + 1, !.ret = TRUE]

\* __header(), after "line = self.__line()"; when __line returned False,
\* len(line) raises
HeaderLineRead(L) ==
    IF L.r = "raise" THEN L.h
    ELSE IF L.r = "None" THEN [L.h EXCEPT !.ret = FALSE]
    ELSE IF L.r = "False" THEN [L.h EXCEPT !.exc = "TypeError"]
    ELSE IF Len(L.line) = 0 THEN HttpEndHeader(L.h)
    ELSE HeaderField(L.h, Split1(L.line, ":"))

\* HTTPHandler.__header()
HttpHeader(h) == HeaderLineRead(HttpLine(h))

\* __chunked_length(), after int(line, 16)
ChunkLength(h, n) ==
    IF ~n.ok
    THEN HttpError(h, "Invalid transfer-encoding chunk length")
    ELSE IF n.n = 0
    THEN [h EXCEPT !.length = 0, !.state = "__footer", !.ret = TRUE]
    ELSE IF h.http_max_content_length # 0
            /\ Len(h.data) + n.n > h.http_max_content_length
    THEN SendServer([h EXCEPT !.length = n.n])
    ELSE [h EXCEPT !.length = n.n, !.state = "__chunked_content", !.ret = TRUE]

\* __chunked_length(), after "line = self.__line()"; when __line returned
\* False, line.split raises
ChunkLengthLine(L) ==
    IF L.r = "raise" THEN L.h
    ELSE IF L.r = "None" THEN [L.h EXCEPT !.ret = FALSE]
    ELSE IF L.r = "False" THEN [L.h EXCEPT !.exc = "AttributeError"]
    ELSE ChunkLength(L.h, ParseInt(Split1(L.line, ";")[1], 16))

\* HTTPHandler.__chunked_length()
HttpChunkedLength(h) == ChunkLengthLine(HttpLine(h))

\* HTTPHandler.__chunked_content()
HttpChunkedContent(h) ==
    IF Len(h.data) >= h.length
    THEN [h EXCEPT !.http_content = @ \o PyPrefix(h.data, h.length),
                   !.data = PySuffix(@, h.length),
                   !.state = "__chunked_content_end", !.ret = TRUE]
    ELSE [h EXCEPT !.ret = FALSE]

\* __chunked_content_end(), after "line = self.__line()"; a False from __line
\* is not '' and takes the error path
ChunkEndLine(L) ==
    IF L.r = "raise" THEN L.h
    ELSE IF L.r = "None" THEN [L.h EXCEPT !.ret = FALSE]
    ELSE IF L.r = "line" /\ L.line = <<>>
    THEN [L.h EXCEPT !.state = "__chunked_length", !.ret = TRUE]
    ELSE HttpError(L.h, "Extra data at end of chunk")

\* HTTPHandler.__chunked_content_end()
HttpChunkedContentEnd(h) == ChunkEndLine(HttpLine(h))

\* __footer(), the blank line: after on_http_data(), __setup()
FooterDone(d) ==
    IF d.exc # "none" THEN d ELSE [HttpSetup(d) EXCEPT !.ret = TRUE]

\* __footer(), a non-empty line
FooterField(h, test) ==
    IF Len(test) # 2
    THEN HttpError(h, "Invalid footer: missing colon")
    ELSE IF Len(h.http_headers) = h.http_max_header_count
    THEN HttpError(h, "Too many header records defined")
    ELSE [h EXCEPT !.http_headers = DictSet(@, Strip(test[1]), Strip(test[2])),
                   !.nLines = @ + 1, !.ret = TRUE]

\* __footer(), after "line = self.__line()"; when __line returned False,
\* len(line) raises
FooterLine(L) ==
    IF L.r = "raise" THEN L.h
    ELSE IF L.r = "None" THEN [L.h EXCEPT !.ret = FALSE]
    ELSE IF L.r = "False" THEN [L.h EXCEPT !.exc = "TypeError"]
    ELSE IF Len(L.line) = 0 THEN FooterDone(OnHttpData(L.h))
    ELSE FooterField(L.h, Split1(L.line, ":"))

\* HTTPHandler.__footer()
HttpFooter(h) == FooterLine(HttpLine(h))

\* self.__state()
HttpState(h) ==
    CASE h.state = "__status" -> HttpStatus(h)
      [] h.state = "__header" -> HttpHeader(h)
      [] h.state = "__content" -> HttpContent(h)
      [] h.state = "__chunked_length" -> HttpChunkedLength(h)
      [] h.state = "__chunked_content" -> HttpChunkedContent(h)
      [] h.state = "__chunked_content_end" -> HttpChunkedContentEnd(h)
      [] h.state = "__footer" -> HttpFooter(h)
      [] OTHER -> [h EXCEPT !.ret = FALSE]

RECURSIVE HttpRun(_)
\* "while self.__state(): pass", after one call of the state
HttpRunNext(r) == IF r.exc # "none" \/ ~r.ret THEN r ELSE HttpRun(r)

\* "while self.__state(): pass"
HttpRun(h) == HttpRunNext(HttpState(h))

\* HTTPHandler.on_data(data)
HttpOnData(h, data) ==
    HttpRun([h EXCEPT !.http_message = @ \o data, !.data = @ \o data])

\* on_data(data) of each handler class: the outbound handlers re-start the
\* call's timer first
HandlerOnData(h, data) ==
    HttpOnData([h EXCEPT !.timer_running = IF h.kind \in Outbound THEN TRUE ELSE @],
               data)

\* an on_timeout() that does not complete the call
OnTimeoutSilent(h) == h

\* on_timeout() of the outbound handlers
OnTimeout(h) ==
    CASE h.kind = "connect.ConnectHandler" -> ConnectDone(h, "timeout", 1)
      [] h.kind = "async.ConnectHandler" -> AsyncDone(h, "timeout", 1)
      [] OTHER -> HttpClose(RequestError(h, "timeout"))

\* on_fail() of each handler class
OnFail(h) ==
    CASE h.kind = "connect.ConnectHandler" -> ConnectDone(h, h.close_reason, 1)
      [] h.kind = "async.ConnectHandler" -> AsyncDone(h, h.close_reason, 1)
      [] h.kind = "async._Handler" -> RequestError(h, "failed to connect")
      [] OTHER -> h

\* on_ready() of the outbound handlers: both ConnectHandler classes re-start
\* the timer; all call HTTPHandler.send(method=...), which stores
\* _http_method and ends in BasicHandler.send -> _do_write -> TypeError
OnReady(h) ==
    IF h.kind \in Outbound
    THEN [h EXCEPT !.timer_running = IF h.kind = "async._Handler" THEN @ ELSE TRUE,
                   !.sent_method = h.ctx_method, !.exc = "TypeError"]
    ELSE h

\* ---- the byte streams a peer sends

CRLF == <<CR, LF>>

HeaderLine(name, value) == name \o <<":", " ">> \o value

PostLine == <<"P", "O", "S", "T", " ", "/", "a", " ">> \o HTTP11
GetLine == <<"G", "E", "T", " ", "/", "?", "q", " ">> \o HTTP11
StatusOK == HTTP11 \o <<" ", "2", "0", "0", " ", "O", "K">>

LengthLine3 == HeaderLine(ContentLength, <<"3">>)
LengthLine1 == HeaderLine(ContentLength, <<"1">>)
ChunkedLine == HeaderLine(TransferEncoding, Chunked)

\* POST /a HTTP/1.1, Content-Length: 3, body "abc", then the first two bytes
\* of a next message
ReqLengthHead == PostLine \o CRLF \o LengthLine3 \o CRLF \o CRLF
ReqLength == ReqLengthHead \o <<"a", "b", "c">> \o <<"P", "O">>

\* the same request with the header name in lower case
ReqLowerHead == PostLine \o CRLF \o Lower(LengthLine3) \o CRLF \o CRLF
ReqLower == ReqLowerHead \o <<"a", "b", "c">>

\* GET /?q HTTP/1.1 without a body
ReqNoLength == GetLine \o CRLF \o CRLF

\* two responses, Content-Length: 1 each, bodies "a" and "b"
RespLengthHead == StatusOK \o CRLF \o LengthLine1 \o CRLF \o CRLF
RespOne == RespLengthHead \o <<"a">>
RespTwo == RespOne \o RespLengthHead \o <<"b">>

\* a chunked response: chunks "ab" and "c" (the second with an extension),
\* the last chunk, an empty trailer
RespChunkedHead == StatusOK \o CRLF \o ChunkedLine \o CRLF \o CRLF
RespChunked ==
    RespChunkedHead \o <<"2">> \o CRLF \o <<"a", "b">> \o CRLF
                    \o <<"1", ";", "x">> \o CRLF \o <<"c">> \o CRLF
                    \o <<"0">> \o CRLF \o CRLF

\* that response, then a second chunked response with the one chunk "d"
RespChunkedTwo ==
    RespChunked \o RespChunkedHead \o <<"1">> \o CRLF \o <<"d">> \o CRLF
                \o <<"0">> \o CRLF \o CRLF

\* a chunked request with one trailer line
ReqChunked ==
    PostLine \o CRLF \o ChunkedLine \o CRLF \o CRLF
             \o <<"A">> \o CRLF \o <<"0", "1", "2", "3", "4", "5", "6", "7", "8", "9">> \o CRLF
             \o <<"0">> \o CRLF \o HeaderLine(<<"X">>, <<"y">>) \o CRLF \o CRLF

\* a response without Content-Length and Transfer-Encoding, then three bytes
RespIdentityHead == StatusOK \o CRLF \o CRLF
RespIdentity == RespIdentityHead \o <<"a", "b", "c">>

\* a start line with two tokens, then a blank line
BadStart == <<"B", "A", "D", " ", "/">> \o CRLF \o CRLF

\* a request with a header line without a colon
BadHeader == PostLine \o CRLF \o <<"X">> \o CRLF \o CRLF

\* a chunked response whose chunk length is not hexadecimal
BadChunk == RespChunkedHead \o <<"z">> \o CRLF \o <<"a">> \o CRLF

\* a request with two header lines
ReqTwoHeaders ==
    PostLine \o CRLF \o HeaderLine(<<"X">>, <<"y">>) \o CRLF
             \o HeaderLine(<<"Z">>, <<"w">>) \o CRLF \o CRLF

\* the chunked response with the header name in lower case
RespChunkedLower ==
    StatusOK \o CRLF \o Lower(ChunkedLine) \o CRLF \o CRLF
             \o <<"1">> \o CRLF \o <<"c">> \o CRLF \o <<"0">> \o CRLF \o CRLF

\* two different requests one after another: POST /a with Content-Length: 3
\* and body "abc", then GET /?q without headers
ReqMixed == ReqLengthHead \o <<"a", "b", "c">> \o ReqNoLength

DefaultCfg ==
    [max_line |-> http_max_line_length, max_headers |-> http_max_header_count,
     max_content |-> 0, headers_rc |-> 0, method |-> "GET"]

\* One case: the handler class, the handler's settings, the stream, and what
\* the stream holds: its framing, the bodies of its complete messages and the
\* index of the last byte of each.
Case(kind, cfg, stream, framing, bodies, ends) ==
    [kind |-> kind, cfg |-> cfg, stream |-> stream, framing |-> framing,
     bodies |-> bodies, ends |-> ends]

PlainCases ==
    <<Case("HTTPHandler", DefaultCfg, ReqLength, "length",
           <<<<"a", "b", "c">>>>, <<Len(ReqLengthHead) + 3>>),
      \* http_max_line_length equal to the length of the Content-Length line
      Case("HTTPHandler", [DefaultCfg EXCEPT !.max_line = Len(LengthLine3)],
           ReqLength, "length", <<<<"a", "b", "c">>>>, <<Len(ReqLengthHead) + 3>>),
      Case("HTTPHandler", DefaultCfg, ReqLower, "length-lower",
           <<<<"a", "b", "c">>>>, <<Len(ReqLowerHead) + 3>>),
      Case("HTTPHandler", DefaultCfg, ReqNoLength, "none",
           <<<<>>>>, <<Len(ReqNoLength)>>),
      Case("HTTPHandler", DefaultCfg, RespTwo, "length",
           <<<<"a">>, <<"b">>>>, <<Len(RespOne), Len(RespTwo)>>),
      Case("HTTPHandler", DefaultCfg, RespChunked, "chunked",
           <<<<"a", "b", "c">>>>, <<Len(RespChunked)>>),
      \* http_max_line_length equal to the length of the Transfer-Encoding line
      Case("HTTPHandler", [DefaultCfg EXCEPT !.max_line = Len(ChunkedLine)],
           RespChunked, "chunked", <<<<"a", "b", "c">>>>, <<Len(RespChunked)>>),
      Case("HTTPHandler", DefaultCfg, ReqChunked, "chunked",
           <<<<"0", "1", "2", "3", "4", "5", "6", "7", "8", "9">>>>, <<Len(ReqChunked)>>),
      Case("HTTPHandler", DefaultCfg, RespIdentity, "identity", <<>>, <<>>),
      Case("HTTPHandler", DefaultCfg, BadStart, "error", <<>>, <<>>),
      Case("HTTPHandler", [DefaultCfg EXCEPT !.headers_rc = 1], ReqLength,
           "rejected", <<>>, <<>>),
      Case("HTTPHandler", [DefaultCfg EXCEPT !.max_content = 2], ReqLength,
           "too-long", <<>>, <<>>),
      Case("HTTPHandler", [DefaultCfg EXCEPT !.max_content = 2], RespChunked,
           "chunked-limit", <<>>, <<>>),
      Case("HTTPHandler", [DefaultCfg EXCEPT !.headers_rc = 1], ReqNoLength,
           "rejected", <<>>, <<>>),
      Case("HTTPHandler", DefaultCfg, RespChunkedLower, "chunked-lower",
           <<<<"c">>>>, <<Len(RespChunkedLower)>>),
      Case("HTTPHandler", DefaultCfg, ReqMixed, "mixed",
           <<<<"a", "b", "c">>, <<>>>>, <<Len(ReqLengthHead) + 3, Len(ReqMixed)>>),
      Case("HTTPHandler", DefaultCfg, BadHeader, "error", <<>>, <<>>),
      Case("HTTPHandler", DefaultCfg, BadChunk, "error", <<>>, <<>>),
      \* http_max_header_count 1: two header lines, and one header line
      \* with one trailer line
      Case("HTTPHandler", [DefaultCfg EXCEPT !.max_headers = 1], ReqTwoHeaders,
           "error", <<>>, <<>>),
      Case("HTTPHandler", [DefaultCfg EXCEPT !.max_headers = 1], ReqChunked,
           "chunked", <<<<"0", "1", "2", "3", "4", "5", "6", "7", "8", "9">>>>,
           <<Len(ReqChunked)>>)>>

\* the outbound handlers receive responses
OutboundCases(kind) ==
    <<Case(kind, DefaultCfg, RespOne, "length", <<<<"a">>>>, <<Len(RespOne)>>),
      Case(kind, DefaultCfg, RespTwo, "length",
           <<<<"a">>, <<"b">>>>, <<Len(RespOne), Len(RespTwo)>>),
      Case(kind, DefaultCfg, RespChunked, "chunked",
           <<<<"a", "b", "c">>>>, <<Len(RespChunked)>>),
      Case(kind, [DefaultCfg EXCEPT !.method = "HEAD"], RespLengthHead, "head",
           <<<<>>>>, <<Len(RespLengthHead)>>),
      Case(kind, DefaultCfg, BadStart, "error", <<>>, <<>>)>>

\* two chunked responses on the connection of a connect.connect() call
PipelinedChunked ==
    <<Case("connect.ConnectHandler", DefaultCfg, RespChunkedTwo, "chunked",
           <<<<"a", "b", "c">>, <<"d">>>>, <<Len(RespChunked), Len(RespChunkedTwo)>>)>>

\* a response without length indicator on the connection of a
\* connect.connect() call: the body ends when the peer closes
IdentityOutbound ==
    <<Case("connect.ConnectHandler", DefaultCfg, RespIdentity, "identity", <<>>, <<>>)>>

HttpCases ==
    PlainCases \o PipelinedChunked \o IdentityOutbound
               \o OutboundCases("connect.ConnectHandler")
               \o OutboundCases("async.ConnectHandler")
               \o OutboundCases("async._Handler")

\* ---- one HTTP connection: the case, the number of stream bytes read so
\* ---- far, the state of the connect, and the handler

TheCase == HttpCases[http.case]

\* the largest recv() result short of a message end
MaxFeed == 3

\* The sizes of the next recv() result: up to MaxFeed bytes, or all bytes up
\* to the end of one of the stream's messages, or all that remains.
FeedSizes ==
    {k \in 1..MaxFeed : http.pos + k <= Len(TheCase.stream)}
    \cup {TheCase.ends[i] - http.pos : i \in {j \in 1..Len(TheCase.ends) : TheCase.ends[j] > http.pos}}
    \cup {k \in {Len(TheCase.stream) - http.pos} : k > 0}

InitHttpVars ==
    \E i \in 1..Len(HttpCases) :
        http = [case |-> i, pos |-> 0, net |-> "connecting",
                h |-> HttpNew(HttpCases[i].kind, HttpCases[i].cfg)]

\* what follows a handler operation that ended in handler state h, with
\* pos bytes of the stream read and the connect in state net
HttpCommit(h, pos, net) ==
    /\ http' = [http EXCEPT !.h = h, !.pos = pos, !.net = net]
    /\ raised' = h.exc

Fresh == [http.h EXCEPT !.exc = "none"]

\* BasicHandler._on_delayed_connect() with SO_ERROR 0: _on_connect(),
\* _on_ready(), on_ready()
HttpConnected ==
    /\ http.net = "connecting"
    /\ HttpCommit(OnReady(Fresh), http.pos, "ready")

\* _on_delayed_connect() with SO_ERROR set, after on_fail(): close()
FailClose(f) == IF f.exc # "none" THEN f ELSE HttpClose(f)

\* BasicHandler._on_delayed_connect() with SO_ERROR set: on_fail(), close().
\* The socket stays in the write-wait table, so this runs in every round.
HttpConnectFailed ==
    /\ http.net \in {"connecting", "failed"}
    /\ HttpCommit(FailClose(OnFail([Fresh EXCEPT !.error = "strerror"])),
                  http.pos, "failed")

\* BasicHandler._do_read() with k bytes from recv(): rxByteCount, on_data()
HttpDoRead(k) ==
    /\ http.net = "ready"
    /\ http.pos + k <= Len(TheCase.stream)
    /\ HttpCommit(HandlerOnData([Fresh EXCEPT !.rxByteCount = @ + k],
                                SubSeq(TheCase.stream, http.pos + 1, http.pos + k)),
                  http.pos + k, http.net)

\* BasicHandler._do_read() when recv() gives '' after the peer sent the whole
\* stream and closed: close_reason = 'remote close', close()
HttpRemoteClose ==
    /\ http.net = "ready"
    /\ http.pos = Len(TheCase.stream)
    /\ HttpCommit(HttpClose([Fresh EXCEPT !.close_reason = "remote close"]),
                  http.pos, http.net)

\* _timer.execute(): whatever the action raises is logged, not raised
Swallow(h) == [h EXCEPT !.exc = "none"]

\* Timers.service() fires the call's timer: _timer.execute() clears running
\* and runs on_timeout()
HttpTimerFires ==
    /\ http.h.timer_running
    /\ HttpCommit(Swallow(OnTimeout([Fresh EXCEPT !.timer_running = FALSE])),
                  http.pos, http.net)

\* the application calls close() on the handler
HttpAppClose ==
    /\ http.net # "connecting"
    /\ HttpCommit(HttpClose(Fresh), http.pos, http.net)

(***************************************************************************)
(*                           Specifications                                *)
(***************************************************************************)

\* the HTTP connection of the specifications that have none
NoHttp == [case |-> 0, pos |-> 0, net |-> "none", h |-> HttpNew("HTTPHandler", DefaultCfg)]

InitTimer == InitTimerVars /\ InitNetVars /\ raised = "none" /\ http = NoHttp

NextTimer ==
    \/ \E t \in TimerIds : TimerStart(t) /\ UNCHANGED <<netVars, http, backoff, startLog>>
    \/ \E t \in TimerIds : TimerReStart(t) /\ UNCHANGED <<netVars, http, backoff, startLog>>
    \/ \E t \in TimerIds : TimerCancel(t) /\ UNCHANGED <<netVars, http, backoff, startLog>>
    \/ \E t \in TimerIds : TimerExpire(t) /\ UNCHANGED <<netVars, http, backoff, startLog>>
    \/ TimersService /\ UNCHANGED <<netVars, http, backoff, startLog>>
    \/ Tick /\ UNCHANGED <<netVars, http, backoff, startLog>>

\* the timer scheduler
SpecTimer == InitTimer /\ [][NextTimer]_vars

InitBackoffTimer ==
    InitScheduler /\ InitBackoff /\ InitNetVars /\ raised = "none" /\ http = NoHttp

NextBackoff ==
    \/ BackoffStart /\ UNCHANGED <<netVars, http, startLog>>
    \/ BackoffReStart /\ UNCHANGED <<netVars, http, startLog>>
    \/ TimerCancel(BackoffId) /\ UNCHANGED <<netVars, http, backoff, startLog>>
    \/ TimersServiceActs({}) /\ UNCHANGED <<netVars, http, backoff, startLog>>
    \/ Tick /\ UNCHANGED <<netVars, http, backoff, startLog>>

\* one backoff timer: started, re-started, cancelled and serviced
SpecBackoff == InitBackoffTimer /\ [][NextBackoff]_vars

NextOrder ==
    \/ \E t \in TimerIds : TimerStart(t) /\ LogStart(t) /\ UNCHANGED <<netVars, http, backoff>>
    \/ TimersServiceActs({}) /\ UNCHANGED <<netVars, http, backoff, startLog>>
    \/ Tick /\ UNCHANGED <<netVars, http, backoff, startLog>>

\* fixed-duration timers that are only started and serviced, with the order
\* of their start() calls logged
SpecOrder == InitTimer /\ [][NextOrder]_vars

Init == InitTimerVars /\ InitNetVars /\ raised = "none" /\ http = NoHttp

ConnectResults == {"EINPROGRESS", "connected", "error"}

Next ==
    \/ \E c \in Conns, ssl \in BOOLEAN, res \in ConnectResults :
          AddConnection(c, ssl, res) /\ UNCHANGED <<timerVars, sentArgs, http, loop>>
    \/ \E c \in Conns, data \in SendPayloads :
          Send(c, data) /\ UNCHANGED <<timerVars, sentArgs, http, loop>>
    \/ \E c \in Conns : Close(c) /\ UNCHANGED <<timerVars, sentArgs, http, loop>>
    \/ \E c \in Conns, ok \in BOOLEAN :
          OsConnectDone(c, ok) /\ UNCHANGED <<timerVars, sentArgs, http, loop>>
    \/ \E c \in Conns : PeerSend(c) /\ UNCHANGED <<timerVars, sentArgs, http, loop>>
    \/ \E c \in Conns, how \in {"closed", "reset"} :
          PeerEnd(c, how) /\ UNCHANGED <<timerVars, sentArgs, http, loop>>
    \/ ServiceBegin /\ UNCHANGED <<timerVars, sentArgs, http, loop>>
    \/ DispatchRead /\ UNCHANGED <<timerVars, sentArgs, http, loop>>
    \/ DispatchWrite /\ UNCHANGED <<timerVars, sentArgs, http, loop>>

\* the reactor with its connections
Spec == Init /\ [][Next]_vars

\* the connection whose send() calls the observer logs
ObservedConn == CHOOSE c \in Conns : \A d \in Conns : c <= d

NextSend ==
    \/ \E ssl \in BOOLEAN, res \in ConnectResults :
          AddConnection(ObservedConn, ssl, res) /\ UNCHANGED <<timerVars, sentArgs, http, loop>>
    \/ \E data \in SendPayloads :
          Send(ObservedConn, data) /\ LogSend(ObservedConn, data) /\ UNCHANGED <<timerVars, http, loop>>
    \/ Close(ObservedConn) /\ UNCHANGED <<timerVars, sentArgs, http, loop>>
    \/ \E ok \in BOOLEAN :
          OsConnectDone(ObservedConn, ok) /\ UNCHANGED <<timerVars, sentArgs, http, loop>>
    \/ PeerSend(ObservedConn) /\ UNCHANGED <<timerVars, sentArgs, http, loop>>
    \/ \E how \in {"closed", "reset"} :
          PeerEnd(ObservedConn, how) /\ UNCHANGED <<timerVars, sentArgs, http, loop>>
    \/ ServiceBegin /\ UNCHANGED <<timerVars, sentArgs, http, loop>>
    \/ DispatchRead /\ UNCHANGED <<timerVars, sentArgs, http, loop>>
    \/ DispatchWrite /\ UNCHANGED <<timerVars, sentArgs, http, loop>>

\* one connection, with the arguments of its send() calls logged
SpecSend == Init /\ [][NextSend]_vars

NextTls ==
    \/ \E res \in ConnectResults, tls \in ConnectTlsResults :
          AddConnectionTls(ObservedConn, res, tls) /\ UNCHANGED <<timerVars, sentArgs, http, loop>>
    \/ Close(ObservedConn) /\ UNCHANGED <<timerVars, sentArgs, http, loop>>
    \/ \E ok \in BOOLEAN :
          OsConnectDone(ObservedConn, ok) /\ UNCHANGED <<timerVars, sentArgs, http, loop>>
    \/ PeerSend(ObservedConn) /\ UNCHANGED <<timerVars, sentArgs, http, loop>>
    \/ \E how \in {"closed", "reset"} :
          PeerEnd(ObservedConn, how) /\ UNCHANGED <<timerVars, sentArgs, http, loop>>
    \/ ServiceBegin /\ UNCHANGED <<timerVars, sentArgs, http, loop>>
    \/ DispatchRead /\ UNCHANGED <<timerVars, sentArgs, http, loop>>
    \/ DispatchWrite /\ UNCHANGED <<timerVars, sentArgs, http, loop>>

\* one connection with an ssl context
SpecTls == Init /\ [][NextTls]_vars

NextApp ==
    \/ \E c \in Conns, res \in ConnectResults :
          AddConnection(c, FALSE, res) /\ UNCHANGED <<timerVars, sentArgs, http, loop>>
    \/ \E c \in Conns, ok \in BOOLEAN :
          OsConnectDone(c, ok) /\ UNCHANGED <<timerVars, sentArgs, http, loop>>
    \/ \E c \in Conns : PeerSend(c) /\ UNCHANGED <<timerVars, sentArgs, http, loop>>
    \/ \E c \in Conns, how \in {"closed", "reset"} :
          PeerEnd(c, how) /\ UNCHANGED <<timerVars, sentArgs, http, loop>>
    \/ ServiceBegin /\ UNCHANGED <<timerVars, sentArgs, http, loop>>
    \/ DispatchRead /\ UNCHANGED <<timerVars, sentArgs, http, loop>>
    \/ DispatchWrite /\ UNCHANGED <<timerVars, sentArgs, http, loop>>
    \/ \E d \in Conns, call \in {"send", "close"} :
          DispatchReadApp(d, call) /\ UNCHANGED <<timerVars, sentArgs, http, loop>>

\* the reactor with connections whose on_data may act on the other
\* connection
SpecApp == Init /\ [][NextApp]_vars

\* the application makes its calls between Server.service() calls
Outside == loop.phase # "polling"

NextService ==
    \/ \E c \in Conns, res \in ConnectResults :
          Outside /\ AddConnection(c, FALSE, res) /\ UNCHANGED <<timerVars, sentArgs, http, loop>>
    \/ \E c \in Conns : Outside /\ Close(c) /\ UNCHANGED <<timerVars, sentArgs, http, loop>>
    \/ \E c \in Conns, ok \in BOOLEAN :
          OsConnectDone(c, ok) /\ UNCHANGED <<timerVars, sentArgs, http, loop>>
    \/ \E c \in Conns : PeerSend(c) /\ UNCHANGED <<timerVars, sentArgs, http, loop>>
    \/ \E c \in Conns, how \in {"closed", "reset"} :
          PeerEnd(c, how) /\ UNCHANGED <<timerVars, sentArgs, http, loop>>
    \/ \E delay \in 0..MaxDelay, max_iterations \in 0..MaxIterations :
          ServiceCall(delay, max_iterations) /\ UNCHANGED <<timerVars, sentArgs, http>>
    \/ ServicePoll /\ UNCHANGED <<timerVars, sentArgs, http>>
    \/ ServiceDispatch /\ UNCHANGED <<timerVars, sentArgs, http>>

\* the reactor driven through Server.service(delay, max_iterations)
SpecService == Init /\ [][NextService]_vars

InitHttp == InitTimerVars /\ InitNetVars /\ raised = "none" /\ InitHttpVars

NextHttp ==
    \/ HttpConnected /\ UNCHANGED <<timerVars, netVars>>
    \/ HttpConnectFailed /\ UNCHANGED <<timerVars, netVars>>
    \/ \E k \in FeedSizes : HttpDoRead(k) /\ UNCHANGED <<timerVars, netVars>>
    \/ HttpRemoteClose /\ UNCHANGED <<timerVars, netVars>>
    \/ HttpTimerFires /\ UNCHANGED <<timerVars, netVars>>
    \/ HttpAppClose /\ UNCHANGED <<timerVars, netVars>>

\* one HTTP connection fed a byte stream in partitions of small pieces, whole
\* messages and the whole rest
SpecHttp == InitHttp /\ [][NextHttp]_vars

\* TIMERS.service() keeps being called while the clock advances: a timer that
\* stays running fires (connect.run calls TIMERS.service() in every turn)
HttpTimerService == HttpTimerFires /\ UNCHANGED <<timerVars, netVars>>

SpecHttpLive == InitHttp /\ [][NextHttp]_vars /\ WF_vars(HttpTimerService)

(***************************************************************************)
(*                     Claims about the timer scheduler                    *)
(***************************************************************************)

\* C3: each Timers.service() call invokes the action of every timer that is
\* running and whose deadline is earlier than the current time at the moment of
\* the call, and of no other timer.
C3_ServiceFiresExactlyTheDue ==
    svc.ran => Range(svc.fired) = svc.due

\* C4: within one Timers.service() call the actions fire in non-decreasing order
\* of their timers' deadlines.
C4_FiresInDeadlineOrder ==
    svc.ran => \A i, j \in 1..Len(svc.deadlines) :
                   i < j => svc.deadlines[i] <= svc.deadlines[j]

\* C5 (as claimed): a timer is an element of the scheduling list, and counted by
\* len(Timers), if and only if its running flag is true.
C5_InListIffRunning ==
    /\ \A t \in TimerIds : (t \in Range(tlist)) <=> running[t]
    /\ Len(tlist) = Cardinality({t \in TimerIds : running[t]})

\* C5 (amended): every running timer is an element of the scheduling list; an
\* element of the list that is not running is a cancelled timer (its deadline
\* reset to 0) that stays until service() pops it or start() arms it again.
C5_RunningImpliesInList ==
    \A t \in TimerIds :
        /\ running[t] => t \in Range(tlist)
        /\ (t \in Range(tlist) /\ ~running[t]) => expiration[t] = 0

\* C5 witness: after a cancel, one timer is running and listed while a
\* cancelled one is still listed.
C5_Witness ==
    \E t, u \in TimerIds :
        /\ running[t] /\ t \in Range(tlist)
        /\ ~running[u] /\ u \in Range(tlist)

\* C11: after expire() on a running timer, the very next Timers.service() call
\* invokes that timer's action, whatever other running timers with later
\* deadlines are in the scheduler.  (A deadline below 0 is one that expire()
\* set: start() sets a deadline above the clock, cancel() sets 0.)
C11_ExpiredFiresOnNextService ==
    svc.ran => \A t \in svc.due : expiration[t] < 0 => t \in Range(svc.fired)

\* a step of Timers.service() that fired a timer: only service() sets svc.ran,
\* and every other operation but the clock's tick clears it
ServiceStep == svc'.ran /\ svc' # svc

\* C12: cancel() is legal in every timer state: it never raises and leaves the
\* timer idle; on an idle timer it changes nothing (so a second cancel() adds
\* nothing to the first); service() invokes the action only of a timer that
\* was running, and an idle timer becomes running only by start(), re_start()
\* or a start() its own action calls.
C12_CancelAlwaysLegal ==
    [][\A t \in TimerIds :
          /\ TimerCancel(t) => (raised' = "none" /\ ~running'[t])
          /\ (TimerCancel(t) /\ ~running[t]) =>
                UNCHANGED <<tlist, running, expiration, is_in_heap>>
          /\ (ServiceStep /\ t \in Range(svc'.fired)) => running[t]
          /\ (~running[t] /\ running'[t]) =>
                \/ TimerStart(t)
                \/ TimerReStart(t)
                \/ ServiceStep /\ t \in svc'.selfStart]_vars

\* C12 witness: a timer cancelled while running is still in the list with its
\* deadline (0) in the past, so the next service() pops it.
C12_Witness ==
    \E t \in TimerIds :
        /\ ~running[t] /\ t \in Range(tlist)
        /\ expiration[t] = 0 /\ now > 0

\* C13: when service() fires a timer, the timer is idle and out of the list
\* at the moment its action runs; an action that calls start() on its own
\* timer succeeds and leaves the timer running and in the list exactly once.
C13_ActionMayStartItsTimer ==
    svc.ran =>
        /\ \A i \in 1..Len(svc.atAction) :
              ~svc.atAction[i].running /\ svc.atAction[i].listed = 0
        /\ \A t \in svc.selfStart :
              /\ t \notin svc.startRaised
              /\ running[t]
              /\ Cardinality({i \in 1..Len(tlist) : tlist[i] = t}) = 1

\* C13 witness: a service() call fired two timers, and the action of one of
\* them started its own timer.
C13_Witness ==
    /\ svc.ran
    /\ Len(svc.fired) >= 2
    /\ svc.selfStart # {}

\* C14: start() on a running timer raises and leaves the timer's deadline,
\* its running flag and the scheduling list unchanged.
C14_StartOnRunningRaises ==
    [][\A t \in TimerIds :
          (running[t] /\ TimerStart(t)) =>
              /\ raised' = "Exception"
              /\ UNCHANGED <<expiration, running, tlist, is_in_heap>>]_vars

\* C14 witness: start() has just raised on a timer that is running and listed.
C14_Witness ==
    /\ raised = "Exception"
    /\ \E t \in TimerIds : running[t] /\ t \in Range(tlist)

RECURSIVE Pow(_, _)
Pow(k, n) == IF n = 0 THEN 1 ELSE k * Pow(k, n - 1)

Min(a, b) == IF a < b THEN a ELSE b

C16_SameDurationFiresInStartOrder ==
    svc.ran =>
        \A i, j \in 1..Len(svc.fired) :
            (i < j /\ DurationOf(svc.fired[i]) = DurationOf(svc.fired[j])) =>
                IndexOf(startLog, svc.fired[i]) < IndexOf(startLog, svc.fired[j])

(***************************************************************************)
(*                        Claims about connections                         *)
(***************************************************************************)

\* C1: for one connection, the bytes handed to the OS socket are exactly the
\* concatenation of the arguments of all send() calls, in call order.
C1_WireIsConcatenationOfSends ==
    osock[ObservedConn].wire = sentArgs[ObservedConn]

\* C2: on_close() is invoked at most once per connection, and a close() call on
\* a connection that is already closed changes no state, invokes no callback
\* and raises nothing.
C2_CloseIdempotent ==
    [][\A c \in Conns :
          /\ conn'[c].nClose <= 1
          /\ (conn[c].closed /\ Close(c)) =>
                /\ conn' = conn
                /\ read_wait' = read_wait
                /\ write_wait' = write_wait
                /\ raised' = "none"]_vars

\* C2 witness: a close() has just returned without raising, which only a
\* close() of an already closed connection does.
C2_Witness ==
    /\ lastOp = "close"
    /\ raised = "none"
    /\ \E c \in Conns : conn[c].closed

\* C9: no socket is in both the read-wait and the write-wait table, and every
\* connection that became ready and is not closed is in exactly one of them.
C9_OneInterest ==
    \A c \in Conns :
        /\ ~(read_wait[c] # "none" /\ write_wait[c] # "none")
        /\ (conn[c].nReady > 0 /\ ~conn[c].closed) =>
               (read_wait[c] # "none") # (write_wait[c] # "none")

\* C17: a connection's callbacks come in lifecycle order: on_ready at most
\* once and only after on_open (with an ssl context only after on_handshake
\* returned true), on_data only after on_ready, and no callback once the
\* connection is closed.
C17_LifecycleOrder ==
    \A c \in Conns :
        /\ conn[c].nReady <= 1
        /\ conn[c].nReady > 0 => conn[c].nOpen > 0
        /\ (conn[c].nReady > 0 /\ conn[c].ssl_ctx) => conn[c].nHandshake > 0
        /\ conn[c].nData > 0 => conn[c].nReady > 0
        /\ conn[c].afterClosed = 0

\* C18: an empty read (the step in which _do_read sets close_reason to
\* 'remote close') closes the connection with one on_close when nothing waits
\* to be written, and leaves it open when bytes wait to be written.
C18_EmptyRead ==
    [][\A c \in Conns :
          (conn[c].close_reason # "remote close"
             /\ conn'[c].close_reason = "remote close") =>
                IF conn[c].sending = <<>>
                THEN conn'[c].closed /\ conn'[c].nClose = 1
                ELSE ~conn'[c].closed]_vars

\* C19: when an outbound connect fails, on_fail is invoked exactly once, then
\* on_close exactly once, and on_open and on_ready never.
C19_ConnectFailure ==
    \A c \in Conns :
        conn[c].nFail > 0 =>
            /\ conn[c].nFail = 1
            /\ conn[c].nClose = 1
            /\ conn[c].nOpen = 0
            /\ conn[c].nReady = 0

\* C20: when the ssl handshake of a connection fails, on_failed_handshake is
\* invoked, the connection is closed with close_reason 'failed ssl handshake',
\* and on_ready is never invoked.
C20_FailedHandshake ==
    \A c \in Conns :
        conn[c].nFailedHandshake > 0 =>
            /\ conn[c].closed
            /\ conn[c].close_reason = "failed ssl handshake"
            /\ conn[c].nClose = 1
            /\ conn[c].nReady = 0

\* C9 witness: one connection went through a delayed connect (write interest)
\* and is now ready with read interest only, while another still waits for
\* its connect with write interest only.
C9_Witness ==
    \E c, d \in Conns :
        /\ conn[c].nReady > 0 /\ ~conn[c].closed
        /\ osock[c].state = "connected"
        /\ read_wait[c] = "_do_read" /\ write_wait[c] = "none"
        /\ conn[d].exists /\ ~conn[d].closed
        /\ write_wait[d] = "_on_delayed_connect" /\ read_wait[d] = "none"

\* C10: a closed connection's socket is in neither wait table.
C10_ClosedIsUnregistered ==
    \A c \in Conns :
        conn[c].closed => (read_wait[c] = "none" /\ write_wait[c] = "none")

(***************************************************************************)
(*              Claims about the HTTP engine and outbound calls            *)
(***************************************************************************)

IsHttpData(e) == e.ev = "on_http_data"

\* the bodies on_http_data was invoked with, in order
Delivered ==
    LET d == SelectSeq(http.h.events, IsHttpData)
    IN  [i \in 1..Len(d) |-> d[i].content]

\* the number of messages of the stream whose last byte has been read
Completed == Cardinality({i \in 1..Len(TheCase.ends) : TheCase.ends[i] <= http.pos})

\* the bodies of those messages
Expected == SubSeq(TheCase.bodies, 1, Completed)

\* C6: for messages framed with Content-Length N, on_http_data has been
\* invoked exactly once per message whose N-th body byte has been read, with
\* exactly its N bytes, however the stream was split into on_data calls, and
\* the bytes after the last complete message are kept for the next one.
C6_FixedLengthExact ==
    TheCase.framing = "length" =>
        /\ Delivered = Expected
        /\ Completed = Len(TheCase.ends) =>
              http.h.data = Slice(TheCase.stream, TheCase.ends[Completed] + 1, http.pos)

\* C7: for a chunked message, on_http_data has been invoked exactly once, with
\* the concatenation of the chunk payloads, once the last chunk and the blank
\* line ending the trailer have been read and not before, however the stream
\* was split into on_data calls.
C7_ChunkedExact ==
    TheCase.framing = "chunked" => Delivered = Expected

\* C8: the completion callback of an outbound call (callback(rc, result),
\* RequestCallback.success / error) has been invoked at most once.
C8_AtMostOneCompletion ==
    TheCase.kind \in Outbound => http.h.nCallback <= 1

\* the positions in the handler's event log of the callbacks named in evs
EventsAt(evs) == {i \in 1..Len(http.h.events) : http.h.events[i].ev \in evs}

\* C21: a fatal parse error sets the error message, invokes on_http_error
\* exactly once, closes the connection and stops the parsing: no callback of
\* the engine follows the on_http_error.
C21_FatalParseError ==
    EventsAt({"on_http_error"}) # {} =>
        /\ Cardinality(EventsAt({"on_http_error"})) = 1
        /\ http.h.error # "None"
        /\ http.h.closed
        /\ \A i \in EventsAt({"on_http_data", "on_http_headers"}) :
              i < Least(EventsAt({"on_http_error"}))

\* C22: when a stream holds several complete messages, on_http_data is invoked
\* once per message in stream order with that message's body, and the
\* headers and start-line fields at each invocation are those of that message
\* only (checked on the stream of two different requests).
C22_PipelinedMessages ==
    /\ Len(TheCase.ends) >= 2 => Delivered = Expected
    /\ TheCase.framing = "mixed" =>
          \A i \in EventsAt({"on_http_data"}) :
              LET e == http.h.events[i]
              IN  IF i = Least(EventsAt({"on_http_data"}))
                  THEN /\ e.method = <<"P", "O", "S", "T">>
                       /\ e.resource = <<"/", "a">>
                       /\ e.query = <<>>
                       /\ DictGet(e.headers, ContentLength) = <<"3">>
                  ELSE /\ e.method = <<"G", "E", "T">>
                       /\ e.resource = <<"/">>
                       /\ e.query = <<"q">>
                       /\ e.headers = <<>>

\* C23: with http_max_content_length set to L, on_http_data is never invoked
\* with a body longer than L, under either framing and for any partition.
C23_MaxContentLength ==
    TheCase.cfg.max_content # 0 =>
        \A i \in EventsAt({"on_http_data"}) :
            Len(http.h.events[i].content) <= TheCase.cfg.max_content

\* C24: a message whose Content-Length or Transfer-Encoding header name is
\* written in lower case is framed like the one with the capitalised name.
C24_HeaderNameCase ==
    TheCase.framing \in {"length-lower", "chunked-lower"} => Delivered = Expected

\* C25: on_http_headers is invoked before on_http_data for every message, and
\* when it returns a non-zero rc, on_http_data is not invoked for the message
\* and the connection is closed through the parse-error path.
C25_HeadersBeforeData ==
    /\ \A i \in EventsAt({"on_http_data"}) :
          Cardinality({j \in EventsAt({"on_http_headers"}) : j < i})
              >= Cardinality({j \in EventsAt({"on_http_data"}) : j <= i})
    /\ TheCase.cfg.headers_rc # 0 =>
          /\ EventsAt({"on_http_data"}) = {}
          /\ EventsAt({"on_http_headers"}) # {} =>
                (http.h.closed /\ EventsAt({"on_http_error"}) # {})

\* C26: for a response without Content-Length and Transfer-Encoding,
\* on_http_data is not invoked while the connection is open, and once the
\* connection is closed it has been invoked exactly once, with all bytes
\* received after the header block.
C26_IdentityBody ==
    (TheCase.framing = "identity" /\ http.pos >= Len(RespIdentityHead)) =>
        Delivered = IF http.h.closed
                    THEN <<Slice(TheCase.stream, Len(RespIdentityHead) + 1, http.pos)>>
                    ELSE <<>>

\* C27: once the connection of an outbound call is closed or its completion
\* callback has been delivered, the call's timer is not running.
C27_TimerStoppedWhenFinished ==
    (TheCase.kind \in Outbound /\ (http.h.closed \/ http.h.nCallback > 0)) =>
        ~http.h.timer_running

\* C28: when the timer of an outbound call fires before the call has
\* completed, the caller's callback is invoked with rc = 1 and result
\* 'timeout'.
C28_TimeoutCallback ==
    [][(~http.h.is_done /\ HttpTimerFires) =>
          http'.h.cb = Append(http.h.cb, [rc |-> 1, result |-> "timeout"])]_vars

\* C28 witness: the timer fired on a ready connection before any response
\* was complete, and the callback got (1, 'timeout').
C28_Witness ==
    /\ http.net = "ready"
    /\ http.h.cb = <<[rc |-> 1, result |-> "timeout"]>>
    /\ Delivered = <<>>

\* C29: when the timer of an outbound call has fired, the connection is
\* closed and its close reason is 'timeout'.
C29_TimeoutCloses ==
    (\E i \in 1..Len(http.h.cb) : http.h.cb[i].result = "timeout") =>
        (http.h.closed /\ http.h.close_reason = "timeout")

\* C30: when the connection of a connect.connect() call cannot be
\* established (and the timer did not fire first), the callback is invoked
\* exactly once, with rc = 1 and result 'failed to connect'.
C30_FailedToConnect ==
    (/\ TheCase.kind = "connect.ConnectHandler"
     /\ http.net = "failed"
     /\ \A i \in 1..Len(http.h.cb) : http.h.cb[i].result # "timeout") =>
        http.h.cb = <<[rc |-> 1, result |-> "failed to connect"]>>

C32_DrainRestoresRead ==
    (/\ lastOp = "send"
     /\ conn[ObservedConn].nReady > 0
     /\ ~conn[ObservedConn].closed
     /\ Len(conn[ObservedConn].sending) = 0)
    => /\ raised = "none"
       /\ read_wait[ObservedConn] = "_do_read"
       /\ write_wait[ObservedConn] = "none"

\* C33: Server.service(delay, max_iterations) gives the caller's delay to
\* the first round only and zero to the later ones, polls again only after
\* a round that dispatched an event, returns at the first round that
\* dispatched nothing or, with max_iterations non-zero, after
\* max_iterations rounds that dispatched, and returns true exactly when a
\* round dispatched an event.
C33_ServiceLoop ==
    LET n == Len(loop.rounds)
        productive == {i \in 1..n : loop.rounds[i].processed}
    IN  /\ \A i \in 1..n :
              loop.rounds[i].delay = IF i = 1 THEN loop.arg_delay ELSE 0
        /\ \A i \in 1..(n - 1) : i \in productive
        /\ loop.max_iterations # 0 => Cardinality(productive) <= loop.max_iterations
        /\ loop.phase = "returned" =>
              /\ n >= 1
              /\ \/ n \notin productive
                 \/ loop.max_iterations # 0 /\ n = loop.max_iterations
              /\ loop.result = (productive # {})
        /\ (loop.phase = "polling" /\ round = Idle /\ n >= 1) =>
              /\ n \in productive
              /\ loop.max_iterations = 0 \/ n < loop.max_iterations

\* a call with delay 1 and max_iterations 2 returned true after two rounds
\* that both dispatched
C33_Witness ==
    /\ loop.phase = "returned"
    /\ loop.arg_delay = 1
    /\ loop.max_iterations = 2
    /\ loop.rounds = <<[delay |-> 1, processed |-> TRUE], [delay |-> 0, processed |-> TRUE]>>
    /\ loop.result

\* a call without limit returned true at its third round, the first that
\* dispatched nothing
C33_WitnessUnlimited ==
    /\ loop.phase = "returned"
    /\ loop.max_iterations = 0
    /\ Len(loop.rounds) = 3
    /\ ~loop.rounds[3].processed
    /\ loop.result

\* C34: the close_reason of a connection is set at most once: once it holds
\* a value, no step of the handler changes it.
C34_CloseReasonOnce ==
    [][http.h.close_reason # "None"
         => http'.h.close_reason = http.h.close_reason]_vars

\* C35: for every message the header lines and trailer lines accepted
\* number at most http_max_header_count.
C35_HeaderCountBounded ==
    http.h.nLines <= http.h.http_max_header_count

\* C36: the scheduler's list is a min-heap on deadlines: the deadline of
\* every element is not smaller than the deadline of its parent (for the
\* element at position i of the 1-based sequence, the one at i \div 2), so
\* the first element has the smallest deadline of the list.
C36_HeapOrdered ==
    \A i \in 2..Len(tlist) : expiration[tlist[i \div 2]] <= expiration[tlist[i]]

\* C37: every timer occupies at most one slot of the scheduler's list, its
\* is_in_heap flag is true exactly when it occupies a slot, and every
\* running timer occupies a slot.
C37_OneSlotPerTimer ==
    /\ \A i, j \in 1..Len(tlist) : tlist[i] = tlist[j] => i = j
    /\ \A t \in TimerIds : is_in_heap[t] <=> t \in Range(tlist)
    /\ \A t \in TimerIds : running[t] => t \in Range(tlist)

\* a timer was popped by service() and is idle and unlisted, while another
\* one was re-started in the list and a third is listed but cancelled
C37_Witness ==
    /\ svc.ran
    /\ Len(tlist) = 2
    /\ \E t, u, w \in TimerIds :
          /\ ~is_in_heap[t] /\ ~running[t] /\ t \in Range(svc.fired)
          /\ is_in_heap[u] /\ running[u]
          /\ is_in_heap[w] /\ ~running[w]

IsResult(e) == e.ev \in {"on_http_data", "on_http_error"}

\* what the application has seen of a handler: the messages delivered and
\* the parse errors reported, in order, and the error text
Observable(h) == [events |-> SelectSeq(h.events, IsResult), error |-> h.error]

\* the handler of the case after one on_data call with the whole stream
OneCall == HandlerOnData(HttpNew(TheCase.kind, TheCase.cfg), TheCase.stream)

\* C38: the result of the HTTP engine depends only on the bytes received:
\* once the whole stream has been read, in whatever pieces, the messages
\* delivered and the parse errors reported are those of a single on_data
\* call with the whole stream (checked for the HTTPHandler cases; two of
\* them have http_max_line_length equal to the length of a header line).
C38_PartitionIndependent ==
    (TheCase.kind = "HTTPHandler" /\ http.pos = Len(TheCase.stream))
        => Observable(http.h) = Observable(OneCall)

\* C39: once a connection has been closed (close() has run on it, the point
\* at which on_close is due), the HTTP engine invokes no further
\* on_http_headers, on_http_data or on_http_error for it.
C39_NoCallbackAfterClose ==
    [][http.h.closed => http'.h.events = http.h.events]_vars

\* C40: when a callback of a service round acts on another connection
\* (send() or close() on it), the round does not fail and goes on with the
\* sockets that are still to be dispatched, and every callback the round
\* invokes is registered for its socket at that moment.
C40_RoundConsistent ==
    [][(round.phase = "dispatch"
          /\ lastOp' \in {"on_data_calls_send", "on_data_calls_close"}) =>
            /\ raised' = "none"
            /\ round' = NextRound([round EXCEPT !.readable = Tail(@)], "none")]_vars

============================================================================
